---------------------------- MODULE Spec2Model ----------------------------
(***************************************************************************)
(* Model of the DataScrubber readership pipeline (src/distribution).       *)
(*                                                                         *)
(* A cell of a DataFrame is a Python str, modelled as a sequence of        *)
(* characters (each character a one-letter string; a non-ASCII character   *)
(* is written by its code point, "U+975E"), or the missing value NaN.      *)
(* A row is a function from column names to cells and a DataFrame is the   *)
(* sequence of its rows in index order.                                    *)
(***************************************************************************)
EXTENDS Integers, Sequences, FiniteSets, TLC

(***************************************************************************)
(* Python str operations                                                   *)
(***************************************************************************)

\* The missing value (numpy.nan / None in an object column).
NaN == <<"<NaN>">>

\* The value of an expression that raised an exception.
Err == <<"<raise>">>

IsStr(v) == v # NaN /\ v # Err

UpperLetters == <<"A","B","C","D","E","F","G","H","I","J","K","L","M",
                  "N","O","P","Q","R","S","T","U","V","W","X","Y","Z">>

LowerLetters == <<"a","b","c","d","e","f","g","h","i","j","k","l","m",
                  "n","o","p","q","r","s","t","u","v","w","x","y","z">>

Digits == <<"0","1","2","3","4","5","6","7","8","9">>

\* The characters of the model's texts, in code-point order: the ASCII ones,
\* then the three of the sentinel
CodePoints == <<" ","!","#","%","&","(",")","*","+",",","-",".","/">>
              \o Digits \o <<":",";","=","?","@">> \o UpperLetters
              \o <<"_">> \o LowerLetters \o <<"U+516C", "U+958B", "U+975E">>

IndexIn(seq, c) == CHOOSE i \in DOMAIN seq : seq[i] = c

IsIn(seq, c) == \E i \in DOMAIN seq : seq[i] = c

\* ord(c), up to the order of the characters
Ord == [c \in {CodePoints[i] : i \in DOMAIN CodePoints} |-> IndexIn(CodePoints, c)]

LowerChar(c) == IF IsIn(UpperLetters, c) THEN LowerLetters[IndexIn(UpperLetters, c)] ELSE c

UpperChar(c) == IF IsIn(LowerLetters, c) THEN UpperLetters[IndexIn(LowerLetters, c)] ELSE c

\* str.lower()
Lower(s) == [i \in 1..Len(s) |-> LowerChar(s[i])]

\* str.upper()
Upper(s) == [i \in 1..Len(s) |-> UpperChar(s[i])]

\* s.startswith(p)
StartsWith(s, p) == Len(p) <= Len(s) /\ SubSeq(s, 1, Len(p)) = p

\* s.endswith(p)
EndsWith(s, p) == Len(p) <= Len(s) /\ SubSeq(s, Len(s) - Len(p) + 1, Len(s)) = p

\* sub occurs in s at position i
OccursAt(s, sub, i) == i + Len(sub) - 1 <= Len(s) /\ SubSeq(s, i, i + Len(sub) - 1) = sub

\* `sub in s`
Contains(s, sub) == \E i \in 1..(Len(s) + 1) : OccursAt(s, sub, i)

\* s.find(sub) + 1, or 0 when sub does not occur
Find(s, sub) ==
    IF Contains(s, sub)
    THEN CHOOSE i \in 1..(Len(s) + 1) :
            OccursAt(s, sub, i) /\ \A j \in 1..(i - 1) : ~OccursAt(s, sub, j)
    ELSE 0

RECURSIVE Replace(_, _, _)
\* s.replace(old, new), old non-empty: every non-overlapping occurrence, left to right
Replace(s, old, new) ==
    IF Find(s, old) = 0 THEN s
    ELSE LET i == Find(s, old)
         IN SubSeq(s, 1, i - 1) \o new \o Replace(SubSeq(s, i + Len(old), Len(s)), old, new)

RECURSIVE Split(_, _)
\* s.split(sep), sep non-empty: the list of the pieces
Split(s, sep) ==
    IF Find(s, sep) = 0 THEN <<s>>
    ELSE LET i == Find(s, sep)
         IN <<SubSeq(s, 1, i - 1)>> \o Split(SubSeq(s, i + Len(sep), Len(s)), sep)

\* s.isdigit()
IsDigit(s) == Len(s) > 0 /\ \A i \in 1..Len(s) : IsIn(Digits, s[i])

RECURSIVE IntOf(_)
\* int(s) for a string of decimal digits
IntOf(s) == IF Len(s) = 0 THEN 0
            ELSE 10 * IntOf(SubSeq(s, 1, Len(s) - 1)) + (IndexIn(Digits, s[Len(s)]) - 1)

RECURSIVE StrOf(_)
\* str(n) for n >= 0
StrOf(n) == IF n < 10 THEN <<Digits[n + 1]>> ELSE StrOf(n \div 10) \o <<Digits[(n % 10) + 1]>>

\* f"{n:02d}"
Pad2(n) == IF n < 10 THEN <<"0">> \o StrOf(n) ELSE StrOf(n)

\* s.strip() of blanks
RECURSIVE Strip(_)
Strip(s) ==
    IF Len(s) = 0 THEN s
    ELSE IF s[1] = " " THEN Strip(Tail(s))
    ELSE IF s[Len(s)] = " " THEN Strip(SubSeq(s, 1, Len(s) - 1))
    ELSE s

\* f"{int(s):02d}": int() skips surrounding blanks and raises ValueError
\* unless the rest is a number
PadInt(s) == IF IsDigit(Strip(s)) THEN Pad2(IntOf(Strip(s))) ELSE Err

Min(a, b) == IF a < b THEN a ELSE b

\* s[lo:hi] (0 <= lo, hi): a slice never raises, it is cut to the text
Slice(s, lo, hi) == SubSeq(s, Min(lo, Len(s)) + 1, Min(hi, Len(s)))

RECURSIVE StrLess(_, _)
\* a < b on str: lexicographic by code point
StrLess(a, b) ==
    IF Len(b) = 0 THEN FALSE
    ELSE IF Len(a) = 0 THEN TRUE
    ELSE IF a[1] # b[1] THEN Ord[a[1]] < Ord[b[1]]
    ELSE StrLess(Tail(a), Tail(b))

(***************************************************************************)
(* pandas DataFrame operations                                             *)
(***************************************************************************)

Range(f) == {f[x] : x \in DOMAIN f}

\* The result of a step that raised: no frame.
Raised == [ok |-> FALSE, rows |-> <<>>]

Frame(rows) == [ok |-> TRUE, rows |-> rows]

RECURSIVE SubFrame(_, _)
\* df[mask]: the rows whose position is in keep, in order
SubFrame(df, keep) ==
    IF df = <<>> THEN <<>>
    ELSE LET n == Len(df)
             front == SubFrame(SubSeq(df, 1, n - 1), keep)
         IN IF n \in keep THEN Append(front, df[n]) ELSE front

\* df[cols]
Select(df, cols) == [i \in DOMAIN df |-> [c \in cols |-> df[i][c]]]

\* df.assign(**extra): every row gets the columns of extra
Assign(df, extra) ==
    [i \in DOMAIN df |->
        [c \in DOMAIN df[i] \cup DOMAIN extra |->
            IF c \in DOMAIN extra THEN extra[c] ELSE df[i][c]]]

NewName(mapping, c) == IF c \in DOMAIN mapping THEN mapping[c] ELSE c

\* df.rename(columns=mapping): a key that names no column is ignored
Rename(df, mapping) ==
    [i \in DOMAIN df |->
        [n \in {NewName(mapping, c) : c \in DOMAIN df[i]} |->
            df[i][CHOOSE c \in DOMAIN df[i] : NewName(mapping, c) = n]]]

\* df.reindex(columns=cols): a column the frame lacks is introduced as NaN
Reindex(df, cols) ==
    [i \in DOMAIN df |->
        [c \in Range(cols) |-> IF c \in DOMAIN df[i] THEN df[i][c] ELSE NaN]]

\* a sorts strictly before b (NaN last, whatever the direction)
Before(a, b, ascending) ==
    IF a = NaN THEN FALSE
    ELSE IF b = NaN THEN TRUE
    ELSE IF ascending THEN StrLess(a, b) ELSE StrLess(b, a)

RECURSIVE SortValues(_, _, _)
\* df.sort_values(by=by, ascending=ascending); rows with equal keys keep
\* their order (nargsort reverses before and after a descending sort, and the
\* sort of frames of this size is numpy's insertion sort)
SortValues(df, by, ascending) ==
    IF df = <<>> THEN <<>>
    ELSE LET n == Len(df)
             rest == SortValues(SubSeq(df, 1, n - 1), by, ascending)
             k == Cardinality({i \in DOMAIN rest :
                                 ~Before(df[n][by], rest[i][by], ascending)})
         IN SubSeq(rest, 1, k) \o <<df[n]>> \o SubSeq(rest, k + 1, Len(rest))

\* df.drop_duplicates(subset=cols): the first row of each key survives; two
\* NaN are the same key
DropDuplicates(df, cols) ==
    SubFrame(df, {i \in DOMAIN df :
                    ~\E j \in 1..(i - 1) : \A c \in cols : df[j][c] = df[i][c]})

\* A replacement that leaves the City column as it is
ReplaceCellsButCity(df, to_replace, value) ==
    [i \in DOMAIN df |->
        [c \in DOMAIN df[i] |->
            IF c # "City" /\ df[i][c] \in to_replace THEN value ELSE df[i][c]]]

\* df.replace(to_replace, value): whole-cell matches only
ReplaceCells(df, to_replace, value) ==
    [i \in DOMAIN df |->
        [c \in DOMAIN df[i] |-> IF df[i][c] \in to_replace THEN value ELSE df[i][c]]]

\* df[cols] = df[cols].applymap(F): raises when F raises on a cell
ApplyMap(df, cols, F(_)) ==
    IF \E i \in DOMAIN df : \E c \in cols : F(df[i][c]) = Err
    THEN Raised
    ELSE Frame([i \in DOMAIN df |->
                  [c \in DOMAIN df[i] |-> IF c \in cols THEN F(df[i][c]) ELSE df[i][c]]])

\* dict.get(k, default)
DictGet(d, k, default) == IF k \in DOMAIN d THEN d[k] ELSE default

\* df[mask] for the mask that Test gives row by row
Filter(df, Test(_)) == SubFrame(df, {i \in DOMAIN df : Test(df[i])})

\* df.apply(F, axis=1) for an F that gives each row's new content
MapRows(df, F(_)) == [i \in DOMAIN df |-> F(df[i])]

\* The statements after one that may raise: they run on its frame, or its
\* exception ends the function
Bind(result, Rest(_)) == IF result.ok THEN Rest(result.rows) ELSE Raised

(***************************************************************************)
(* cleaning_rawdata.py: the shared canonicalizer                           *)
(***************************************************************************)

\* The sentinel (three CJK characters, "undisclosed")
Sentinel == <<"U+975E","U+516C","U+958B">>

column_order == <<"Read Date", "Post Date", "Firm Name", "User Name", "Email",
                  "City", "Country", "Report Title", "Platform", "Transaction ID">>

\* '***', 'N/A - Free Content', 'Restricted', 'nan', 'Unattributed',
\* 'Embargoed', 'EMBARGOED', 'Unknown'
Placeholders ==
    { <<"*","*","*">>,
      <<"N","/","A"," ","-"," ","F","r","e","e"," ","C","o","n","t","e","n","t">>,
      <<"R","e","s","t","r","i","c","t","e","d">>,
      <<"n","a","n">>,
      <<"U","n","a","t","t","r","i","b","u","t","e","d">>,
      <<"E","m","b","a","r","g","o","e","d">>,
      <<"E","M","B","A","R","G","O","E","D">>,
      <<"U","n","k","n","o","w","n">> }

\* A process_columns that removes duplicate entries whatever the adapter asks
RemoveDuplicatesAlways(df, remove_duplicates) ==
    DropDuplicates(df, {"Transaction ID"})

\* The step of process_columns that removes duplicate entries
RemoveDuplicates(df, remove_duplicates) ==
    IF remove_duplicates THEN DropDuplicates(df, {"Transaction ID"}) ELSE df

\* A canonicalizer that sorts the oldest reading first
process_columns_ascending(df, remove_duplicates) ==
    LET reordered == Reindex(df, column_order)
        sorted    == SortValues(reordered, "Read Date", TRUE)
        deduped   == RemoveDuplicates(sorted, remove_duplicates)
    IN ReplaceCells(deduped, Placeholders, Sentinel)

process_columns(df, remove_duplicates) ==
    LET reordered == Reindex(df, column_order)
        sorted    == SortValues(reordered, "Read Date", FALSE)
        deduped   == RemoveDuplicates(sorted, remove_duplicates)
    IN ReplaceCells(deduped, Placeholders, Sentinel)

\* pycountry.countries.get(alpha_2=...): the standard table, keyed without
\* regard to letter case ('jp', 'us', 'gb', 'ca' of the ISO 3166 list)
Alpha2Names ==
    (<<"j","p">> :> <<"J","a","p","a","n">>) @@
    (<<"u","s">> :> <<"U","n","i","t","e","d"," ","S","t","a","t","e","s">>) @@
    (<<"g","b">> :> <<"U","n","i","t","e","d"," ","K","i","n","g","d","o","m">>) @@
    (<<"c","a">> :> <<"C","a","n","a","d","a">>)

\* A mapping that looks the override up by the cell, not by the standard name
custom_mapping_by_code(country_code, country_table) ==
    IF country_code = Sentinel THEN Sentinel
    ELSE LET country_name == IF Lower(country_code) \in DOMAIN Alpha2Names
                             THEN Alpha2Names[Lower(country_code)]
                             ELSE country_code
         IN DictGet(country_table, country_code, country_name)

custom_mapping(country_code, country_table) ==
    IF country_code = Sentinel THEN Sentinel
    ELSE LET country_name == IF Lower(country_code) \in DOMAIN Alpha2Names
                             THEN Alpha2Names[Lower(country_code)]
                             ELSE country_code
         IN DictGet(country_table, country_name, country_name)

\* x.upper() if x != sentinel else x
UpperUnlessSentinel(x) == IF x # Sentinel THEN Upper(x) ELSE x

\* A NaN cell raises AttributeError (a float has no upper()).
map_and_fillna_country(df, country_table) ==
    IF \E i \in DOMAIN df : ~IsStr(df[i]["Country"]) THEN Raised
    ELSE Frame([i \in DOMAIN df |->
                  [df[i] EXCEPT !["Country"] =
                      UpperUnlessSentinel(custom_mapping(@, country_table))]])

map_and_fillna_city(df, city_table) ==
    IF \E i \in DOMAIN df : ~IsStr(df[i]["City"]) THEN Raised
    ELSE Frame([i \in DOMAIN df |->
                  [df[i] EXCEPT !["City"] = UpperUnlessSentinel(DictGet(city_table, @, @))]])

\* map_and_fillna_city(map_and_fillna_country(process_columns(df, ...)))
Canonicalize(df, remove_duplicates, country_table, city_table) ==
    Bind(map_and_fillna_country(process_columns(df, remove_duplicates), country_table),
         LAMBDA rows : map_and_fillna_city(rows, city_table))

\* Canonicalize a step's result, or pass its exception on
Then(prepared, remove_duplicates, country_table, city_table) ==
    Bind(prepared, LAMBDA rows :
           Canonicalize(rows, remove_duplicates, country_table, city_table))

(***************************************************************************)
(* cleaning_rawdata.py: the publisher adapters                             *)
(***************************************************************************)

\* 'non-disclosed company name'
Marker == <<"n","o","n","-","d","i","s","c","l","o","s","e","d"," ",
            "c","o","m","p","a","n","y"," ","n","a","m","e">>

\* A disclosure filter that compares the firm's name as it is spelt
DisclosureFilterCaseSensitive(df) ==
    Filter(df, LAMBDA row : ~Contains(row["Firm Name"], Marker))

\* df[~df['Firm Name'].str.lower().str.contains('non-disclosed company name')]
DisclosureFilter(df) ==
    Filter(df, LAMBDA row : ~Contains(Lower(row["Firm Name"]), Marker))

\* 'example_publisher_' and the publisher's number
PlatformName(n) ==
    <<"e","x","a","m","p","l","e","_","p","u","b","l","i","s","h","e","r","_">> \o StrOf(n)

\* The spellings dateutil's parser takes for each month, in lower case
MonthSpellings ==
    << {<<"j","a","n">>, <<"j","a","n","u","a","r","y">>},
       {<<"f","e","b">>, <<"f","e","b","r","u","a","r","y">>},
       {<<"m","a","r">>, <<"m","a","r","c","h">>},
       {<<"a","p","r">>, <<"a","p","r","i","l">>},
       {<<"m","a","y">>},
       {<<"j","u","n">>, <<"j","u","n","e">>},
       {<<"j","u","l">>, <<"j","u","l","y">>},
       {<<"a","u","g">>, <<"a","u","g","u","s","t">>},
       {<<"s","e","p">>, <<"s","e","p","t">>, <<"s","e","p","t","e","m","b","e","r">>},
       {<<"o","c","t">>, <<"o","c","t","o","b","e","r">>},
       {<<"n","o","v">>, <<"n","o","v","e","m","b","e","r">>},
       {<<"d","e","c">>, <<"d","e","c","e","m","b","e","r">>} >>

\* parser.parse(month_name).month for a month's name; 0 when the parser raises.
\* (A token that is no month name is outside the inputs of this model.)
month_name_to_month(month_name) ==
    IF \E m \in DOMAIN MonthSpellings : Lower(month_name) \in MonthSpellings[m]
    THEN CHOOSE m \in DOMAIN MonthSpellings : Lower(month_name) \in MonthSpellings[m]
    ELSE 0

\* year-month-day with month and day through int() and :02d
IsoDate(year, month, day) ==
    IF PadInt(month) = Err \/ PadInt(day) = Err THEN Err
    ELSE year \o <<"-">> \o PadInt(month) \o <<"-">> \o PadInt(day)

\* Format: YYYY/MM/DD HH:MM or DD/MM/YYYY HH:MM
convert_date_example_publisher_1(date_str) ==
    LET parts == Split(date_str, <<" ">>)
    IN IF Len(parts) # 2 THEN Err
       ELSE LET date == parts[1]
            IN IF Len(date) < 3 THEN Err
               ELSE IF date[3] = "/"
                    THEN Replace(Slice(date, 6, Len(date)) \o <<"/">> \o Slice(date, 3, 5)
                                   \o <<"/">> \o Slice(date, 0, 2), <<"/">>, <<"-">>)
                    ELSE Replace(date, <<"/">>, <<"-">>)

\* Format: DD-Month-YYYY HH:MM AM/PM
convert_date_example_publisher_2(date_str) ==
    LET parts == Split(date_str, <<" ">>)
    IN IF Len(parts) # 3 THEN Err
       ELSE LET dmy == Split(parts[1], <<"-">>)
            IN IF Len(dmy) # 3 THEN Err
               ELSE IF month_name_to_month(dmy[2]) = 0 THEN Err
               ELSE IF PadInt(dmy[1]) = Err THEN Err
               ELSE dmy[3] \o <<"-">> \o Pad2(month_name_to_month(dmy[2]))
                           \o <<"-">> \o PadInt(dmy[1])

\* Format: MM/DD/YYYY HH:MM:SS
convert_date_example_publisher_3(date_str) ==
    LET parts == Split(date_str, <<" ">>)
    IN IF Len(parts) # 2 THEN Err
       ELSE LET mdy == Split(parts[1], <<"/">>)
            IN IF Len(mdy) # 3 THEN Err ELSE IsoDate(mdy[3], mdy[1], mdy[2])

\* Format: YYYY/MM/DD
convert_date_example_publisher_4(date_str) == Replace(date_str, <<"/">>, <<"-">>)

\* Format: MM/DD/YYYY HH:MM:SS AM/PM
convert_date_example_publisher_5(date_str) ==
    LET parts == Split(date_str, <<" ">>)
    IN IF Len(parts) # 3 THEN Err
       ELSE LET mdy == Split(parts[1], <<"/">>)
            IN IF Len(mdy) # 3 THEN Err ELSE IsoDate(mdy[3], mdy[1], mdy[2])

\* Format: Month DD, YYYY
convert_date_example_publisher_6(date_str) ==
    LET parts == Split(date_str, <<",", " ">>)
    IN IF Len(parts) # 2 THEN Err
       ELSE LET md == Split(parts[1], <<" ">>)
            IN IF Len(md) # 2 THEN Err
               ELSE IF month_name_to_month(md[1]) = 0 THEN Err
               ELSE IF PadInt(Strip(md[2])) = Err THEN Err
               ELSE parts[2] \o <<"-">> \o Pad2(month_name_to_month(md[1]))
                             \o <<"-">> \o PadInt(Strip(md[2]))

\* Format: YYYY-MM-DD HH:MM:SS AM/PM
convert_date_example_publisher_7(date_str) ==
    LET parts == Split(date_str, <<" ">>)
    IN IF Len(parts) # 3 THEN Err ELSE parts[1]

\* Three formats, told apart by the length of the text
convert_date_example_publisher_8(date_str) ==
    IF Len(date_str) = 19
    THEN LET parts == Split(date_str, <<" ">>)
         IN IF Len(parts) # 2 THEN Err
            ELSE LET ymd == Split(parts[1], <<"-">>)
                 IN IF Len(ymd) # 3 THEN Err ELSE IsoDate(ymd[1], ymd[2], ymd[3])
    ELSE IF Len(date_str) = 16
    THEN LET parts == Split(date_str, <<" ">>)
         IN IF Len(parts) # 2 THEN Err
            ELSE LET dmy == Split(parts[1], <<"/">>)
                 IN IF Len(dmy) # 3 THEN Err ELSE IsoDate(dmy[3], dmy[2], dmy[1])
    ELSE LET dmy == Split(date_str, <<"/">>)
         IN IF Len(dmy) # 3 THEN Err ELSE IsoDate(dmy[3], dmy[2], dmy[1])

\* The statements of clean_example_publisher_1 before "# Process DataFrame"
prepare_example_publisher_1(df) ==
    LET kept == Select(df, {"Transaction Date", "Customer Name", "User Name",
                            "Business eMail", "Customer City", "Customer Country",
                            "Transaction Id", "Post Date", "Title"})
        assigned == Assign(kept, "Platform" :> PlatformName(1))
        renamed == Rename(assigned,
                     ("Transaction Date" :> "Read Date") @@ ("Platform" :> "Platform") @@
                     ("Customer Name" :> "Firm Name") @@ ("User Name" :> "User Name") @@
                     ("Business eMail" :> "Email") @@ ("Customer City" :> "City") @@
                     ("Customer Country" :> "Country") @@
                     ("Transaction Id" :> "Transaction ID") @@
                     ("Post Date" :> "Post Date") @@ ("Title" :> "Report Title"))
    IN ApplyMap(DisclosureFilter(renamed), {"Read Date", "Post Date"},
                convert_date_example_publisher_1)

clean_example_publisher_1(df, country_table, city_table) ==
    Then(prepare_example_publisher_1(df), TRUE, country_table, city_table)

\* The statements of clean_example_publisher_2 before "# Process DataFrame".
\* The rename names 'Readership Event ID (FactSet)', the frame holds
\* 'Readership Event ID'.
prepare_example_publisher_2(df) ==
    LET kept == Select(df, {"Date/time read", "Platform", "Parent Firm name",
                            "Reader name", "E-mail", "City", "Country",
                            "Readership Event ID", "Date/time published", "Report title"})
        renamed == Rename(kept,
                     ("Date/time read" :> "Read Date") @@ ("Platform" :> "Platform") @@
                     ("Parent Firm name" :> "Firm Name") @@ ("Reader name" :> "User Name") @@
                     ("E-mail" :> "Email") @@ ("City" :> "City") @@ ("Country" :> "Country") @@
                     ("Readership Event ID (FactSet)" :> "Transaction ID") @@
                     ("Date/time published" :> "Post Date") @@
                     ("Report title" :> "Report Title"))
    IN ApplyMap(DisclosureFilter(renamed), {"Read Date", "Post Date"},
                convert_date_example_publisher_2)

clean_example_publisher_2(df, country_table, city_table) ==
    Then(prepare_example_publisher_2(df), TRUE, country_table, city_table)

\* The statements of clean_example_publisher_3 before "# Process DataFrame"
prepare_example_publisher_3(df) ==
    LET kept == Select(df, {"Viewed Date", "Published Date", "Client Name", "User Name",
                            "User Email", "User City", "User Country", "Headline",
                            "Transaction ID"})
        assigned == Assign(kept, "Platform" :> PlatformName(3))
        renamed == Rename(assigned,
                     ("Viewed Date" :> "Read Date") @@ ("Platform" :> "Platform") @@
                     ("Client Name" :> "Firm Name") @@ ("User Name" :> "User Name") @@
                     ("User Email" :> "Email") @@ ("User City" :> "City") @@
                     ("User Country" :> "Country") @@
                     ("Transaction ID" :> "Transaction ID") @@
                     ("Published Date" :> "Post Date") @@ ("Headline" :> "Report Title"))
    IN ApplyMap(DisclosureFilter(renamed), {"Read Date", "Post Date"},
                convert_date_example_publisher_3)

clean_example_publisher_3(df, country_table, city_table) ==
    Then(prepare_example_publisher_3(df), TRUE, country_table, city_table)

\* The statements of clean_example_publisher_4 before "# Process DataFrame"
prepare_example_publisher_4(df) ==
    LET kept == Select(df, {"Read Date", "Firm Name", "Post Date", "Report Title"})
        assigned == Assign(kept,
                      ("Platform" :> PlatformName(4)) @@ ("User Name" :> Sentinel) @@
                      ("Email" :> Sentinel) @@ ("City" :> Sentinel) @@
                      ("Country" :> Sentinel) @@ ("Transaction ID" :> Sentinel))
    IN ApplyMap(DisclosureFilter(assigned), {"Read Date", "Post Date"},
                convert_date_example_publisher_4)

clean_example_publisher_4(df, country_table, city_table) ==
    Then(prepare_example_publisher_4(df), FALSE, country_table, city_table)

\* The statements of clean_example_publisher_5 before "# Process DataFrame":
\* the date conversion is applied to 'Read Date' alone
prepare_example_publisher_5(df) ==
    LET kept == Select(df, {"Activity Date", "Client Name", "Activity Id",
                            "Document Posted Date", "Headline"})
        assigned == Assign(kept,
                      ("Platform" :> PlatformName(5)) @@ ("User Name" :> Sentinel) @@
                      ("Email" :> Sentinel) @@ ("City" :> Sentinel) @@
                      ("Country" :> Sentinel))
        renamed == Rename(assigned,
                     ("Activity Date" :> "Read Date") @@ ("Platform" :> "Platform") @@
                     ("Client Name" :> "Firm Name") @@ ("User Name" :> "User Name") @@
                     ("Email" :> "Email") @@ ("City" :> "City") @@ ("Country" :> "Country") @@
                     ("Activity Id" :> "Transaction ID") @@
                     ("Document Posted Date" :> "Post Date") @@
                     ("Headline" :> "Report Title"))
    IN ApplyMap(DisclosureFilter(renamed), {"Read Date"}, convert_date_example_publisher_5)

clean_example_publisher_5(df, country_table, city_table) ==
    Then(prepare_example_publisher_5(df), TRUE, country_table, city_table)

\* A cell read as an integer (before get_data turns every cell into text)
IntCell(n) == <<"<int>">> \o StrOf(n)

IsIntCell(v) == Len(v) > 1 /\ v[1] = "<int>"

RECURSIVE RepeatRows(_, _)
\* The rows of df, row i taken int(df[i][col]) times
RepeatRows(df, col) ==
    IF df = <<>> THEN <<>>
    ELSE RepeatRows(SubSeq(df, 1, Len(df) - 1), col)
           \o [k \in 1..IntOf(Tail(df[Len(df)][col])) |-> df[Len(df)]]

\* df.loc[df.index.repeat(df[col])]: numpy casts the counts to integers by
\* the 'safe' rule and raises TypeError for a column of text
IndexRepeat(df, col) ==
    IF \A i \in DOMAIN df : IsIntCell(df[i][col]) THEN Frame(RepeatRows(df, col)) ELSE Raised

\* The statements of clean_example_publisher_6 before "# Process DataFrame"
prepare_example_publisher_6(df) ==
    LET rest(rows) ==
          LET kept == Select(rows, {"Published", "Title"})
              assigned == MapRows(kept, LAMBDA row :
                            row @@ ("Read Date" :> row["Published"]) @@
                            ("Platform" :> PlatformName(6)) @@ ("Firm Name" :> Sentinel) @@
                            ("User Name" :> Sentinel) @@ ("Email" :> Sentinel) @@
                            ("City" :> Sentinel) @@ ("Country" :> Sentinel) @@
                            ("Transaction ID" :> Sentinel))
              renamed == Rename(assigned,
                           ("Read Date" :> "Read Date") @@ ("Platform" :> "Platform") @@
                           ("Firm Name" :> "Firm Name") @@ ("User Name" :> "User Name") @@
                           ("Email" :> "Email") @@ ("City" :> "City") @@
                           ("Country" :> "Country") @@
                           ("Transaction ID" :> "Transaction ID") @@
                           ("Published" :> "Post Date") @@ ("Title" :> "Report Title"))
          IN ApplyMap(DisclosureFilter(renamed), {"Read Date", "Post Date"},
                      convert_date_example_publisher_6)
    IN Bind(IndexRepeat(df, "Platform Views*"), rest)

clean_example_publisher_6(df, country_table, city_table) ==
    Then(prepare_example_publisher_6(df), FALSE, country_table, city_table)

\* df[col].astype(float) > 3000.0 for the text of a number ('nan' is not
\* greater than anything); Err when float() raises ValueError
LongerThan3Seconds(s) ==
    LET parts == Split(s, <<".">>)
        whole == IF IsDigit(parts[1]) THEN IntOf(parts[1]) ELSE 0
    IN IF s = <<"n","a","n">> THEN <<"F">>
       ELSE IF Len(parts) > 2 \/ ~IsDigit(parts[1]) THEN Err
       ELSE IF Len(parts) = 2 /\ parts[2] # <<>> /\ ~IsDigit(parts[2]) THEN Err
       ELSE IF whole > 3000 THEN <<"T">>
       ELSE IF whole = 3000 /\ Len(parts) = 2
               /\ \E i \in DOMAIN parts[2] : parts[2][i] # "0" THEN <<"T">>
       ELSE <<"F">>

\* df.fillna(value)
FillNa(df, value) ==
    [i \in DOMAIN df |-> [c \in DOMAIN df[i] |-> IF df[i][c] = NaN THEN value ELSE df[i][c]]]

\* '@non-disclosedcompany.com'
UndisclosedDomain == <<"@","n","o","n","-","d","i","s","c","l","o","s","e","d",
                       "c","o","m","p","a","n","y",".","c","o","m">>

\* df[df[col].astype(float) > 3000.0]: raises when a cell is no number
LongerThan3SecondsFilter(df, col) ==
    IF \E i \in DOMAIN df : LongerThan3Seconds(df[i][col]) = Err THEN Raised
    ELSE Frame(Filter(df, LAMBDA row : LongerThan3Seconds(row[col]) = <<"T">>))

\* The statements of clean_example_publisher_8 before "# Process DataFrame"
prepare_example_publisher_8(df) ==
    LET kept == Select(df, {"Recipient", "Subject", "Event Type", "Event ID",
                            "Event Created Date (Your time zone)", "City", "Country",
                            "Open duration (ms)"})
        opened == Filter(kept, LAMBDA row : row["Event Type"] = <<"O","P","E","N">>)
        rest(longer) ==
          LET dropped == Select(longer, {"Recipient", "Subject", "Event ID",
                                  "Event Created Date (Your time zone)", "City", "Country"})
              disclosed == Filter(dropped, LAMBDA row :
                              /\ ~EndsWith(row["Recipient"], UndisclosedDomain)
                              /\ row["Recipient"] #
                                   <<"u","s","e","r","@","h","o","t","m","a","i","l",".","c","o","m">>)
              assigned == Assign(FillNa(disclosed, Sentinel),
                            ("Platform" :> PlatformName(8)) @@ ("User Name" :> Sentinel) @@
                            ("Firm Name" :> Sentinel) @@
                            ("Post Date" :> <<"3","1","/","1","2","/","2","0","0","0"," ",
                                              "0","0",":","0","0">>))
              renamed == Rename(assigned,
                           ("Event Created Date (Your time zone)" :> "Read Date") @@
                           ("Platform" :> "Platform") @@ ("Firm Name" :> "Firm Name") @@
                           ("User Name" :> "User Name") @@ ("Recipient" :> "Email") @@
                           ("City" :> "City") @@ ("Country" :> "Country") @@
                           ("Event ID" :> "Transaction ID") @@ ("Post Date" :> "Post Date") @@
                           ("Subject" :> "Report Title"))
          IN ApplyMap(renamed, {"Read Date", "Post Date"}, convert_date_example_publisher_8)
    IN Bind(LongerThan3SecondsFilter(opened, "Open duration (ms)"), rest)

clean_example_publisher_8(df, country_table, city_table) ==
    Then(prepare_example_publisher_8(df), TRUE, country_table, city_table)

(***************************************************************************)
(* clean_example_publisher_7 and its pre-cleaning                          *)
(***************************************************************************)

\* Custom publishers dictionary, in the order of its items
custom_publishers ==
    << << <<"P","u","b","l","i","s","h","e","r"," ","1">>,
         <<"(","0","0","0","1",")">> >>,
       << <<"U+30D1","U+30D6","U+30EA","U+30B7","U+30E3","U+30FC"," ","1">>,
         <<"(","0","0","0","1",")">> >>,
       << <<"P","u","b","l","i","s","h","e","r"," ","2">>,
         <<"(","0","0","0","2",")">> >>,
       << <<"U+30D1","U+30D6","U+30EA","U+30B7","U+30E3","U+30FC"," ","2">>,
         <<"(","0","0","0","2",")">> >>,
       << <<"P","u","b","l","i","s","h","e","r"," ","3">>,
         <<"(","0","0","0","3",")">> >>,
       << <<"U+30D1","U+30D6","U+30EA","U+30B7","U+30E3","U+30FC"," ","3">>,
         <<"(","0","0","0","3",")">> >>,
       << <<"P","u","b","l","i","s","h","e","r"," ","4">>,
         <<"(","0","0","0","4",")">> >>,
       << <<"U+30D1","U+30D6","U+30EA","U+30B7","U+30E3","U+30FC"," ","4">>,
         <<"(","0","0","0","4",")">> >>,
       << <<"P","u","b","l","i","s","h","e","r"," ","5">>,
         <<"(","0","0","0","5",")">> >>,
       << <<"U+30D1","U+30D6","U+30EA","U+30B7","U+30E3","U+30FC"," ","5">>,
         <<"(","0","0","0","5",")">> >> >>

\* Custom reports dictionary, in the order of its items (the key written
\* twice keeps its first place and its second value)
custom_reports ==
    << << <<"I","n","i","t","i","a","t","i","n","g"," ","c","o","v","e","r","a","g","e">>,
         <<"(","0","0","0","2",")"," ","I","n","i","t","i","a","t","i","n","g"," ","c","o","v","e","r","a","g","e">> >>,
       << <<"F","i","n","a","n","c","i","a","l"," ","m","o","d","e","l">>,
         <<"(","0","0","0","1",")"," ","F","i","n","a","n","c","i","a","l"," ","m","o","d","e","l">> >>,
       << <<"T","r","a","n","s","f","o","r","m","i","n","g"," ","f","o","r"," ","a"," ","m","a","j","o","r"," ","s","e","c","t","o","r"," ","t","u","r","n","a","r","o","u","n","d">>,
         <<"(","0","0","0","1",")"," ","I","n","i","t","i","a","t","i","n","g"," ","c","o","v","e","r","a","g","e">> >>,
       << <<"G","r","o","u","p"," ","i","n","v","e","s","t","m","e","n","t","s">>,
         <<"(","0","0","0","1",")"," ","G","r","o","u","p"," ","i","n","v","e","s","t","m","e","n","t","s">> >>,
       << <<"Q","2"," ","F","Y","3","/","2","0","2","3"," ","r","e","s","u","l","t","s"," ","u","p","d","a","t","e">>,
         <<"(","0","0","0","1",")"," ","Q","2"," ","F","Y","3","/","2","0","2","3"," ","r","e","s","u","l","t","s"," ","u","p","d","a","t","e">> >>,
       << <<"Q","3"," ","F","Y","3","/","2","0","2","3"," ","r","e","s","u","l","t","s"," ","u","p","d","a","t","e">>,
         <<"(","0","0","0","1",")"," ","Q","3"," ","F","Y","3","/","2","0","2","3"," ","r","e","s","u","l","t","s"," ","u","p","d","a","t","e">> >>,
       << <<"Q","4"," ","F","Y","3","/","2","0","2","3"," ","r","e","s","u","l","t","s"," ","u","p","d","a","t","e","/","d","e","e","p","-","d","i","v","e"," ","u","p","d","a","t","e">>,
         <<"(","0","0","0","1",")"," ","Q","4"," ","F","Y","3","/","2","0","2","3"," ","r","e","s","u","l","t","s"," ","u","p","d","a","t","e","/","d","e","e","p","-","d","i","v","e"," ","u","p","d","a","t","e">> >>,
       << <<"Q","1"," ","F","Y","3","/","2","0","2","4"," ","r","e","s","u","l","t","s"," ","u","p","d","a","t","e">>,
         <<"(","0","0","0","1",")"," ","Q","1"," ","F","Y","3","/","2","0","2","4"," ","r","e","s","u","l","t","s"," ","u","p","d","a","t","e">> >>,
       << <<"Q","2"," ","F","Y","3","/","2","0","2","4"," ","r","e","s","u","l","t","s"," ","u","p","d","a","t","e">>,
         <<"(","0","0","0","1",")"," ","Q","2"," ","F","Y","3","/","2","0","2","4"," ","r","e","s","u","l","t","s"," ","u","p","d","a","t","e">> >>,
       << <<"Q","3"," ","F","Y","3","/","2","0","2","2"," ","r","e","s","u","l","t","s"," ","u","p","d","a","t","e">>,
         <<"(","0","0","0","1",")"," ","Q","3"," ","F","Y","3","/","2","0","2","2"," ","r","e","s","u","l","t","s"," ","u","p","d","a","t","e">> >>,
       << <<"Q","4"," ","F","Y","3","/","2","0","2","4"," ","r","e","s","u","l","t","s"," ","u","p","d","a","t","e","/","d","e","e","p","-","d","i","v","e"," ","u","p","d","a","t","e">>,
         <<"(","0","0","0","1",")"," ","Q","4"," ","F","Y","3","/","2","0","2","3"," ","r","e","s","u","l","t","s"," ","u","p","d","a","t","e","/","d","e","e","p","-","d","i","v","e"," ","u","p","d","a","t","e">> >>,
       << <<"U+30AB","U+30D0","U+30EC","U+30C3","U+30B8","U+958B","U+59CB">>,
         <<"(","0","0","0","1",")"," ","U+30AB","U+30D0","U+30EC","U+30C3","U+30B8","U+958B","U+59CB">> >>,
       << <<"U+30CB","U+30E5","U+30FC","U+30B9","U+30EA","U+30EA","U+30FC","U+30B9","(","1",")">>,
         <<"(","0","0","0","1",")"," ","U+30CB","U+30E5","U+30FC","U+30B9","U+30EA","U+30EA","U+30FC","U+30B9","U+FF08","1","U+FF09">> >>,
       << <<"U+30CB","U+30E5","U+30FC","U+30B9","U+30EA","U+30EA","U+30FC","U+30B9","U+30A2","U+30E9","U+30FC","U+30C8">>,
         <<"(","0","0","0","1",")"," ","U+30CB","U+30E5","U+30FC","U+30B9","U+30EA","U+30EA","U+30FC","U+30B9","U+FF08","1","U+FF09">> >>,
       << <<"U+30CB","U+30E5","U+30FC","U+30B9","U+30EA","U+30EA","U+30FC","U+30B9","U+30A2","U+30E9","U+30FC","U+30C8","(","2",")">>,
         <<"(","0","0","0","1",")"," ","U+30CB","U+30E5","U+30FC","U+30B9","U+30EA","U+30EA","U+30FC","U+30B9","U+FF08","2","U+FF09">> >>,
       << <<"U+696D","U+7E3E","U+4E88","U+6E2C","U+30E2","U+30C7","U+30EB">>,
         <<"(","0","0","0","1",")"," ","U+696D","U+7E3E","U+4E88","U+6E2C","U+30E2","U+30C7","U+30EB">> >>,
       << <<"2","2","U+5E74","3","U+6708","U+671F","4","Q"," ","U+6C7A","U+7B97">>,
         <<"(","0","0","0","1",")"," ","2","2","U+5E74","3","U+6708","U+671F","4","Q"," ","U+6C7A","U+7B97">> >>,
       << <<"2","3","U+5E74","3","U+6708","U+671F","1","Q"," ","U+6C7A","U+7B97">>,
         <<"(","0","0","0","1",")"," ","2","3","U+5E74","3","U+6708","U+671F","1","Q"," ","U+6C7A","U+7B97">> >>,
       << <<"2","3","U+5E74","3","U+6708","U+671F","2","Q"," ","U+6C7A","U+7B97">>,
         <<"(","0","0","0","1",")"," ","2","3","U+5E74","3","U+6708","U+671F","2","Q"," ","U+6C7A","U+7B97">> >>,
       << <<"2","3","U+5E74","3","U+6708","U+671F","2","Q"," ","U+6C7A","U+7B97","U+30A2","U+30C3","U+30D7","U+30C7","U+30FC","U+30C8">>,
         <<"(","0","0","0","1",")"," ","2","3","U+5E74","3","U+6708","U+671F","2","Q"," ","U+6C7A","U+7B97">> >>,
       << <<"2","3","U+5E74","3","U+6708","U+671F","3","Q"," ","U+6C7A","U+7B97">>,
         <<"(","0","0","0","1",")"," ","2","3","U+5E74","3","U+6708","U+671F","3","Q"," ","U+6C7A","U+7B97">> >>,
       << <<"2","4","U+5E74","3","U+6708","U+671F","3","Q"," ","U+6C7A","U+7B97">>,
         <<"(","0","0","0","1",")"," ","2","4","U+5E74","3","U+6708","U+671F","3","Q"," ","U+6C7A","U+7B97">> >>,
       << <<"2","4","U+5E74","3","U+6708","U+671F","1","Q"," ","U+6C7A","U+7B97">>,
         <<"(","0","0","0","1",")"," ","2","4","U+5E74","3","U+6708","U+671F","1","Q"," ","U+6C7A","U+7B97">> >>,
       << <<"2","4","U+5E74","3","U+6708","U+671F","2","Q"," ","U+6C7A","U+7B97">>,
         <<"(","0","0","0","1",")"," ","2","4","U+5E74","3","U+6708","U+671F","2","Q"," ","U+6C7A","U+7B97">> >>,
       << <<"(","0","0","0","3",")","(","U+30B5","U+30DE","U+30EA","U+30FC","U+7248","2",")","2","0","2","2",".","0","5",".","1","3">>,
         <<"(","0","0","0","3",")"," ","F","Y","3","/","2","0","2","2"," ","r","e","s","u","l","t","s"," ","u","p","d","a","t","e">> >>,
       << <<"(","0","0","0","4",")","(","U+30B5","U+30DE","U+30EA","U+30FC","U+7248",")","2","0","2","2",".","0","8",".","0","2">>,
         <<"(","0","0","0","4",")"," ","Q","1"," ","F","Y","3","/","2","0","2","4"," ","r","e","s","u","l","t","s"," ","u","p","d","a","t","e">> >> >>

\* The percent-escapes of urllib's unquote that the model's pages use
PercentEscapes ==
    (<<"2","0">> :> " ") @@ (<<"2","8">> :> "(") @@ (<<"2","9">> :> ")") @@
    (<<"2","5">> :> "%") @@ (<<"2","F">> :> "/")

RECURSIVE unquote(_)
\* urllib.parse.unquote: each escape is decoded once, left to right
unquote(s) ==
    IF Len(s) = 0 THEN s
    ELSE IF s[1] = "%" /\ Len(s) >= 3 /\ SubSeq(s, 2, 3) \in DOMAIN PercentEscapes
         THEN <<PercentEscapes[SubSeq(s, 2, 3)]>> \o unquote(SubSeq(s, 4, Len(s)))
         ELSE <<s[1]>> \o unquote(Tail(s))

\* s.translate(str.maketrans(full-width brackets, '()'))
TranslateBrackets(s) ==
    [i \in 1..Len(s) |-> IF s[i] = "U+FF08" THEN "(" ELSE IF s[i] = "U+FF09" THEN ")" ELSE s[i]]

\* A match of \((\d{4})\) at position i
BracketedCodeAt(s, i) ==
    /\ i + 5 <= Len(s)
    /\ s[i] = "("
    /\ IsDigit(SubSeq(s, i + 1, i + 4))
    /\ s[i + 5] = ")"

move_stock_code(report_title) ==
    IF \E i \in DOMAIN report_title : BracketedCodeAt(report_title, i)
    THEN LET i == CHOOSE i \in DOMAIN report_title :
                    /\ BracketedCodeAt(report_title, i)
                    /\ \A j \in 1..(i - 1) : ~BracketedCodeAt(report_title, j)
             bracketed_text == SubSeq(report_title, i, i + 5)
             cleaned_report_title == Replace(report_title, bracketed_text, <<>>)
         IN bracketed_text \o <<" ">> \o Strip(cleaned_report_title)
    ELSE report_title

\* Err when the page does not split in two at '?document=' (ValueError)
transform_report_title(url) ==
    LET decoded == Replace(TranslateBrackets(unquote(url)), <<"U+3000">>, <<>>)
        parts == Split(decoded, <<"?","d","o","c","u","m","e","n","t","=">>)
        stock_code == parts[1]
        report_title == Replace(parts[2], <<"%","2","0">>, <<" ">>)
        last4 == Slice(stock_code, IF Len(stock_code) > 4 THEN Len(stock_code) - 4 ELSE 0,
                       Len(stock_code))
    IN IF Len(parts) # 2 THEN Err
       ELSE IF IsDigit(last4) THEN <<"(">> \o last4 \o <<")", " ">> \o report_title
       ELSE move_stock_code(report_title)

RECURSIVE ApplyPublishers(_, _)
\* The loop of transform_publishers over the items of the dictionary, each
\* item seeing the title as the earlier items left it
ApplyPublishers(downloaded_report, items) ==
    IF items = <<>> THEN downloaded_report
    ELSE LET publisher == items[1][1]
             stock_code == items[1][2]
         IN ApplyPublishers(
              IF Contains(downloaded_report, publisher) /\ ~StartsWith(downloaded_report, <<"(">>)
              THEN Replace(downloaded_report, publisher, stock_code)
              ELSE downloaded_report,
              Tail(items))

transform_publishers(downloaded_report) == ApplyPublishers(downloaded_report, custom_publishers)

RECURSIVE SortByKeyLength(_)
\* sorted(items, key=lambda x: len(x[0]), reverse=True): stable
SortByKeyLength(items) ==
    IF items = <<>> THEN <<>>
    ELSE LET n == Len(items)
             rest == SortByKeyLength(SubSeq(items, 1, n - 1))
             k == Cardinality({i \in DOMAIN rest : Len(rest[i][1]) >= Len(items[n][1])})
         IN SubSeq(rest, 1, k) \o <<items[n]>> \o SubSeq(rest, k + 1, Len(rest))

RECURSIVE ApplyReports(_, _, _)
\* The inner loop of transform_reports for one row: `row` is the copy that
\* iterrows handed out, so every item tests and replaces in the title as it
\* was before the loop, and each assignment overwrites the one before
ApplyReports(original, current, items) ==
    IF items = <<>> THEN current
    ELSE ApplyReports(original,
           IF Contains(original, items[1][1]) /\ ~StartsWith(original, <<"(">>)
           THEN Replace(original, items[1][1], items[1][2])
           ELSE current,
           Tail(items))

\* transform_reports, for the 'Downloaded Report' of one row
transform_reports(downloaded_report) ==
    ApplyReports(downloaded_report, downloaded_report, SortByKeyLength(custom_reports))

\* A match of \(\d+<tail> that starts at i: its length, or 0
PageCountAt(s, i, tail) ==
    IF i <= Len(s) /\ s[i] = "("
       /\ \E n \in 1..Len(s) : IsDigit(Slice(s, i, i + n)) /\ OccursAt(s, tail, i + n + 1)
    THEN (CHOOSE n \in 1..Len(s) : IsDigit(Slice(s, i, i + n)) /\ OccursAt(s, tail, i + n + 1))
           + 1 + Len(tail)
    ELSE 0

RECURSIVE RemovePageCounts(_)
\* str.replace(r'\(\d+<page>\)|\(\d+ pages\)', '', regex=True)
RemovePageCounts(s) ==
    LET ja == PageCountAt(s, 1, <<"U+30DA","U+30FC","U+30B8",")">>)
        en == PageCountAt(s, 1, <<" ","p","a","g","e","s",")">>)
    IN IF Len(s) = 0 THEN s
       ELSE IF ja > 0 THEN RemovePageCounts(SubSeq(s, ja + 1, Len(s)))
       ELSE IF en > 0 THEN RemovePageCounts(SubSeq(s, en + 1, Len(s)))
       ELSE <<s[1]>> \o RemovePageCounts(Tail(s))

\* Series.replace(prefix + '.*', value, regex=True): from the first match of
\* the prefix to the end of the title
ReplaceFrom(s, prefix, value) ==
    IF Find(s, prefix) = 0 THEN s ELSE SubSeq(s, 1, Find(s, prefix) - 1) \o value

\* The chain "Replace faulty titles with usable ones"
ReplaceFaultyTitles(s) ==
    LET fy2022 == <<"(","0","0","0","5",")"," ","F","Y","3","/","2","0","2","2"," ",
                    "r","e","s","u","l","t","s"," ","u","p","d","a","t","e">>
        q1 == <<"(","0","0","0","4",")"," ","Q","1"," ","F","Y","3","/","2","0","2","4"," ",
                "r","e","s","u","l","t","s"," ","u","p","d","a","t","e">>
        a == RemovePageCounts(s)
        b == ReplaceFrom(a, <<"(","0","0","0","5",")","(","U+30B5","U+30DE","U+30EA","U+30FC","U+7248",")">>, fy2022)
        c == ReplaceFrom(b, <<"(","0","0","0","5",")","(","U+30B5","U+30DE","U+30EA","U+30FC","U+7248","2",")">>, fy2022)
    IN ReplaceFrom(c, <<"(","0","0","0","4",")","(","U+30B5","U+30DE","U+30EA","U+30FC","U+7248",")">>, q1)

\* str.strip().str.contains(r'^\(\d+\)$'): a title that is a stock code only
IsStockCodeOnly(s) ==
    LET t == Strip(s)
    IN Len(t) >= 3 /\ t[1] = "(" /\ t[Len(t)] = ")" /\ IsDigit(SubSeq(t, 2, Len(t) - 1))

\* df['Downloaded Report'] = df['Conversion Page'].apply(transform_report_title)
\* .apply(transform_publishers): raises when a page has no single '?document='
TitlesFromPages(df) ==
    IF \E i \in DOMAIN df : transform_report_title(df[i]["Conversion Page"]) = Err
    THEN Raised
    ELSE Frame(MapRows(df, LAMBDA row :
                 [row EXCEPT !["Downloaded Report"] =
                     transform_publishers(transform_report_title(row["Conversion Page"]))]))

pre_cleaning_example_publisher_7(df) ==
    LET rest(titled) ==
          LET with_code == Filter(titled, LAMBDA row :
                              StartsWith(row["Downloaded Report"], <<"(">>))
              temp_df == Filter(titled, LAMBDA row :
                            ~StartsWith(row["Downloaded Report"], <<"(">>))
              transformed == MapRows(temp_df, LAMBDA row :
                                [row EXCEPT !["Downloaded Report"] = transform_reports(@)])
              replaced == MapRows(with_code \o transformed, LAMBDA row :
                             [row EXCEPT !["Downloaded Report"] = ReplaceFaultyTitles(@)])
              usable == Filter(replaced, LAMBDA row :
                           /\ ~IsStockCodeOnly(row["Downloaded Report"])
                           /\ row["Downloaded Report"] #
                                <<"(","0","0","0","4",")"," ","U+30A2","U+30D0","U+30F3",
                                  "U+30C8","U+30B0","U+30EB","U+30FC","U+30D7",
                                  "(","0","0","0","4",")">>)
              primary == MapRows(usable, LAMBDA row :
                            [row EXCEPT !["Email"] = Split(@, <<";">>)[1]])
          IN Frame(Select(primary, {"User Name", "Email", "Downloaded Report",
                                    "Conversion Date"}))
    IN Bind(TitlesFromPages(df), rest)

\* series.fillna(other, inplace=True) on the column col
FillNaFrom(df, col, other) ==
    [i \in DOMAIN df |-> [df[i] EXCEPT ![col] = IF @ = NaN THEN df[i][other] ELSE @]]

\* The statements of clean_example_publisher_7 before "# Process DataFrame"
prepare_example_publisher_7(df) ==
    LET moved == FillNaFrom(FillNaFrom(FillNaFrom(FillNaFrom(df,
                    "First name", "U+59D3"), "Last name", "U+540D"),
                    "Email", "U+30E1 U+30FC U+30EB U+30A2 U+30C9 U+30EC U+30B9"),
                    "Profession", "U+5C5E U+6027")
        named == MapRows(moved, LAMBDA row :
                    row @@ ("User Name" :>
                        IF row["First name"] = NaN \/ row["Last name"] = NaN THEN NaN
                        ELSE row["First name"] \o <<" ">> \o row["Last name"]))
        kept == Select(named, {"User Name", "Email", "Downloaded Report",
                               "Conversion Date", "Conversion Page"})
        disclosed == Filter(kept, LAMBDA row :
                        /\ ~EndsWith(row["Email"], UndisclosedDomain)
                        /\ row["Email"] #
                             <<"c","o","m","p","a","n","y","@","h","o","t","m","a","i","l",
                               ".","c","o","m">>)
        nulled == ReplaceCells(disclosed, {<<"n","a","n">>}, NaN)
        complete == Filter(nulled, LAMBDA row : \A c \in DOMAIN row : row[c] # NaN)
        usable == Filter(complete, LAMBDA row :
                     ~ \/ Contains(row["Downloaded Report"], <<"U+30C6","U+30B9","U+30C8">>)
                       \/ row["Downloaded Report"] = <<"Q","2">>
                       \/ Contains(row["Conversion Page"],
                            <<"n","o","n","-","d","i","s","c","l","o","s","e","d"," ",
                              "l","i","n","k">>))
        rest(cleaned) ==
          LET assigned == Assign(cleaned,
                            ("Platform" :> PlatformName(7)) @@ ("Firm Name" :> Sentinel) @@
                            ("City" :> Sentinel) @@ ("Country" :> Sentinel) @@
                            ("Transaction ID" :> Sentinel) @@
                            ("Post Date" :> <<"2","0","0","0","-","1","2","-","3","1"," ",
                                              "0","0",":","0","0",":","0","0"," ","A","M">>))
              renamed == Rename(assigned,
                           ("Conversion Date" :> "Read Date") @@ ("Platform" :> "Platform") @@
                           ("Firm Name" :> "Firm Name") @@ ("User Name" :> "User Name") @@
                           ("Email" :> "Email") @@ ("City" :> "City") @@
                           ("Country" :> "Country") @@
                           ("Transaction ID" :> "Transaction ID") @@
                           ("Post Date" :> "Post Date") @@
                           ("Downloaded Report" :> "Report Title"))
          IN ApplyMap(renamed, {"Read Date", "Post Date"}, convert_date_example_publisher_7)
    IN Bind(pre_cleaning_example_publisher_7(usable), rest)

clean_example_publisher_7(df, country_table, city_table) ==
    Then(prepare_example_publisher_7(df), FALSE, country_table, city_table)

\* preclean_data: the cleaning function of the publisher
preclean_data(df, publisher, country_table, city_table) ==
    CASE publisher = 1 -> clean_example_publisher_1(df, country_table, city_table)
      [] publisher = 2 -> clean_example_publisher_2(df, country_table, city_table)
      [] publisher = 3 -> clean_example_publisher_3(df, country_table, city_table)
      [] publisher = 4 -> clean_example_publisher_4(df, country_table, city_table)
      [] publisher = 5 -> clean_example_publisher_5(df, country_table, city_table)
      [] publisher = 6 -> clean_example_publisher_6(df, country_table, city_table)
      [] publisher = 7 -> clean_example_publisher_7(df, country_table, city_table)
      [] publisher = 8 -> clean_example_publisher_8(df, country_table, city_table)

\* df.astype(str) of get_data: every cell becomes text, a missing cell 'nan'
AsStr(cell) ==
    IF cell = NaN THEN <<"n","a","n">> ELSE IF IsIntCell(cell) THEN Tail(cell) ELSE cell

\* get_data: the rows of the files, every cell text
get_data(file_rows) ==
    [i \in DOMAIN file_rows |-> [c \in DOMAIN file_rows[i] |-> AsStr(file_rows[i][c])]]

\* The frame the publisher's adapter hands to process_columns: the cleaning
\* function up to "# Process DataFrame"
prepare_data(df, p) ==
    CASE p = 1 -> prepare_example_publisher_1(df)
      [] p = 2 -> prepare_example_publisher_2(df)
      [] p = 3 -> prepare_example_publisher_3(df)
      [] p = 4 -> prepare_example_publisher_4(df)
      [] p = 5 -> prepare_example_publisher_5(df)
      [] p = 6 -> prepare_example_publisher_6(df)
      [] p = 7 -> prepare_example_publisher_7(df)
      [] p = 8 -> prepare_example_publisher_8(df)

(***************************************************************************)
(* The inputs of the model: the rows of the publishers' export files       *)
(***************************************************************************)

\* Most rows of one export file
MaxRows == 2

\* Seven reading events, each as every publisher would export it: `day` is
\* the day of March 2024 it was read on; a NaN is an empty cell of the file;
\* the last two differ in the page only, which publisher 7 alone exports
Events ==
    { [day |-> 7, dayfirst |-> FALSE, firm |-> <<"A","c","m","e">>, user |-> <<"B","o","b">>,
       email |-> <<"b","o","b","@","a","c","m","e",".","c","o","m">>,
       city |-> <<"C","h","i","y","o","d","a","-","k","u">>, country |-> <<"J","P">>,
       title |-> <<"1","2","3","4"," ","Q","2"," ","R","e","s","u","l","t","s"," ","U","p","d","a","t","e">>,
       txn |-> <<"T","1">>, views |-> 2, event |-> <<"O","P","E","N">>,
       duration |-> <<"3","5","0","0">>,
       page |-> <<"r","/","1","2","3","4","?","d","o","c","u","m","e","n","t","=",
                  "Q","2","%","2","0","R","e","s","u","l","t","s">>],
      [day |-> 7, dayfirst |-> TRUE, firm |-> <<"A","C","M","E">>, user |-> <<"B","o","b">>,
       email |-> <<"b","o","b","@","a","c","m","e",".","c","o","m">>,
       city |-> <<"T","o","k","y","o">>, country |-> <<"J","a","p","a","n">>,
       title |-> <<"1","2","3","4"," ","Q","2"," ","R","e","s","u","l","t","s">>,
       txn |-> <<"T","1">>, views |-> 1, event |-> <<"O","P","E","N">>,
       duration |-> <<"3","5","0","0",".","0">>,
       page |-> <<"r","?","d","o","c","u","m","e","n","t","=","I","n","i","t","i","a","t","i","n","g",
                  " ","c","o","v","e","r","a","g","e"," ","u","p","d","a","t","e">>],
      [day |-> 9, dayfirst |-> FALSE,
       firm |-> <<"N","o","n","-","D","i","s","c","l","o","s","e","d"," ",
                  "C","o","m","p","a","n","y"," ","N","a","m","e">>,
       user |-> <<"L","e","e">>,
       email |-> <<"x","@","n","o","n","-","d","i","s","c","l","o","s","e","d",
                   "c","o","m","p","a","n","y",".","c","o","m">>,
       city |-> <<"O","s","a","k","a">>, country |-> <<"U","S">>,
       title |-> <<"1","2","3","4"," ","Q","2"," ","R","e","s","u","l","t","s">>,
       txn |-> <<"T","2">>, views |-> 1, event |-> <<"O","P","E","N">>,
       duration |-> <<"9","0","0","0">>,
       page |-> <<"r","/","1","2","3","4","?","d","o","c","u","m","e","n","t","=",
                  "Q","2","%","2","0","R","e","s","u","l","t","s">>],
      [day |-> 5, dayfirst |-> FALSE, firm |-> NaN, user |-> NaN, email |-> NaN,
       city |-> NaN, country |-> NaN,
       title |-> <<"9","9","9","9"," ","O","t","h","e","r">>,
       txn |-> NaN, views |-> 0, event |-> <<"S","E","N","T">>, duration |-> NaN,
       page |-> <<"r","?","d","o","c","u","m","e","n","t","=","P","u","b","l","i","s","h","e","r",
                  " ","2"," ","(","1","2"," ","p","a","g","e","s",")">>],
      [day |-> 9, dayfirst |-> FALSE, firm |-> <<"B","e","t","a">>,
       user |-> <<"U","n","k","n","o","w","n">>,
       email |-> <<"e","v","e","@","b","e","t","a",".","c","o","m">>,
       city |-> <<"U","n","k","n","o","w","n">>, country |-> <<"U","n","k","n","o","w","n">>,
       title |-> <<"1","2","3","4"," ","O","t","h","e","r">>,
       txn |-> <<"U","n","k","n","o","w","n">>, views |-> 1, event |-> <<"O","P","E","N">>,
       duration |-> <<"3","5","0","0">>,
       page |-> <<"r","?","d","o","c","u","m","e","n","t","=","P","u","b","l","i","s","h","e","r",
                  " ","2"," ","(","1","2"," ","p","a","g","e","s",")">>],
      [day |-> 8, dayfirst |-> FALSE, firm |-> <<"B","e","t","a">>,
       user |-> <<"E","v","e">>,
       email |-> <<"e","v","e","@","b","e","t","a",".","c","o","m">>,
       city |-> <<"O","s","a","k","a">>, country |-> <<"J","P">>,
       title |-> <<"1","2","3","4"," ","Q","2"," ","R","e","s","u","l","t","s">>,
       txn |-> NaN, views |-> 1, event |-> <<"O","P","E","N">>,
       duration |-> <<"3","0","0","0",".","5">>,
       page |-> <<"r","/","1","2","3","4","?","d","o","c","u","m","e","n","t","=",
                  "Q","2","%","2","0","R","e","s","u","l","t","s">>],
      [day |-> 8, dayfirst |-> FALSE, firm |-> <<"B","e","t","a">>,
       user |-> <<"E","v","e">>,
       email |-> <<"e","v","e","@","b","e","t","a",".","c","o","m">>,
       city |-> <<"O","s","a","k","a">>, country |-> <<"J","P">>,
       title |-> <<"1","2","3","4"," ","Q","2"," ","R","e","s","u","l","t","s">>,
       txn |-> NaN, views |-> 1, event |-> <<"O","P","E","N">>,
       duration |-> <<"3","0","0","0",".","5">>,
       page |-> <<"r","?","d","o","c","u","m","e","n","t","=",
                  "2","3","U+5E74","3","U+6708","U+671F","2","Q"," ","U+6C7A","U+7B97",
                  "U+30A2","U+30C3","U+30D7","U+30C7","U+30FC","U+30C8">>] }

\* The date of the event in the grammar of each publisher's export
DateText(publisher, day, dayfirst) ==
    LET dd == Pad2(day)
        d == StrOf(day)
    IN CASE publisher = 1 ->
              (IF dayfirst THEN dd \o <<"/","0","3","/","2","0","2","4">>
               ELSE <<"2","0","2","4","/","0","3","/">> \o dd) \o <<" ","1","0",":","1","5">>
         [] publisher = 2 ->
              dd \o <<"-","M","a","r","-","2","0","2","4"," ","1","0",":","1","5"," ","A","M">>
         [] publisher = 3 ->
              <<"3","/">> \o d \o <<"/","2","0","2","4"," ","1","0",":","1","5",":","0","0">>
         [] publisher = 4 -> <<"2","0","2","4","/","0","3","/">> \o dd
         [] publisher = 5 ->
              <<"3","/">> \o d \o <<"/","2","0","2","4"," ","1","0",":","1","5",":","0","0"," ","A","M">>
         [] publisher = 6 -> <<"M","a","r","c","h"," ">> \o d \o <<",", " ","2","0","2","4">>
         [] publisher = 7 ->
              <<"2","0","2","4","-","0","3","-">> \o dd \o <<" ","1","0",":","1","5",":","0","0"," ","A","M">>
         [] publisher = 8 ->
              IF dayfirst THEN dd \o <<"/","0","3","/","2","0","2","4"," ","1","0",":","1","5">>
              ELSE <<"2","0","2","4","-","0","3","-">> \o dd \o <<" ","1","0",":","1","5",":","0","0">>

\* The row of the publisher's export file for an event
FileRow(publisher, e) ==
    LET read == DateText(publisher, e.day, e.dayfirst)
        post == DateText(publisher, 1, e.dayfirst)
    IN CASE publisher = 1 ->
              ("Transaction Date" :> read) @@ ("Customer Name" :> e.firm) @@
              ("User Name" :> e.user) @@ ("Business eMail" :> e.email) @@
              ("Customer City" :> e.city) @@ ("Customer Country" :> e.country) @@
              ("Transaction Id" :> e.txn) @@ ("Post Date" :> post) @@ ("Title" :> e.title)
         [] publisher = 2 ->
              ("Date/time read" :> read) @@ ("Platform" :> <<"F","a","c","t","S","e","t">>) @@
              ("Parent Firm name" :> e.firm) @@ ("Reader name" :> e.user) @@
              ("E-mail" :> e.email) @@ ("City" :> e.city) @@ ("Country" :> e.country) @@
              ("Readership Event ID" :> e.txn) @@ ("Date/time published" :> post) @@
              ("Report title" :> e.title)
         [] publisher = 3 ->
              ("Viewed Date" :> read) @@ ("Published Date" :> post) @@
              ("Client Name" :> e.firm) @@ ("User Name" :> e.user) @@
              ("User Email" :> e.email) @@ ("User City" :> e.city) @@
              ("User Country" :> e.country) @@ ("Headline" :> e.title) @@
              ("Transaction ID" :> e.txn)
         [] publisher = 4 ->
              ("Read Date" :> read) @@ ("0" :> NaN) @@ ("Firm Name" :> e.firm) @@
              ("1" :> NaN) @@ ("2" :> NaN) @@ ("Post Date" :> post) @@
              ("Report Title" :> e.title) @@ ("3" :> NaN) @@ ("4" :> NaN)
         [] publisher = 5 ->
              ("Activity Date" :> read) @@ ("Client Name" :> e.firm) @@
              ("Activity Id" :> e.txn) @@ ("Document Posted Date" :> post) @@
              ("Headline" :> e.title)
         [] publisher = 6 ->
              ("Published" :> read) @@ ("Title" :> e.title) @@
              ("Platform Views*" :> IntCell(e.views))
         [] publisher = 7 ->
              ("First name" :> e.user) @@ ("Last name" :> <<"L","e","e">>) @@
              ("U+59D3" :> NaN) @@ ("U+540D" :> NaN) @@ ("Email" :> e.email) @@
              ("U+30E1 U+30FC U+30EB U+30A2 U+30C9 U+30EC U+30B9" :> NaN) @@
              ("Profession" :> <<"A","n","a","l","y","s","t">>) @@ ("U+5C5E U+6027" :> NaN) @@
              ("Downloaded Report" :> e.title) @@ ("Conversion Date" :> read) @@
              ("Conversion Page" :> e.page)
         [] publisher = 8 ->
              ("Recipient" :> e.email) @@ ("Subject" :> e.title) @@
              ("Event Type" :> e.event) @@ ("Event ID" :> e.txn) @@
              ("Event Created Date (Your time zone)" :> read) @@ ("City" :> e.city) @@
              ("Country" :> e.country) @@ ("Open duration (ms)" :> e.duration)

Publishers == 1..8

\* The export files of a publisher: at most MaxRows rows, in any order,
\* the same event exported any number of times
FileRows(publisher) ==
    UNION {[1..n -> {FileRow(publisher, e) : e \in Events}] : n \in 0..MaxRows}

EmptyTable == [k \in {} |-> k]

\* The Country Mapping Master File: empty, or an override of a standard name
CountryTables ==
    { EmptyTable,
      <<"J","a","p","a","n">> :> <<"N","i","p","p","o","n">> }

\* The City Mapping Master File: empty, or a district and its city
CityTables ==
    { EmptyTable,
      <<"C","h","i","y","o","d","a","-","k","u">> :> <<"T","o","k","y","o">> }

(***************************************************************************)
(* cleaning_customer.py: the customer stage                                *)
(***************************************************************************)

\* The greatest of a set of row numbers
MaxOf(S) == CHOOSE x \in S : \A y \in S : y <= x

\* The texts pandas reads as a missing value
NaValues ==
    { <<>>, <<"#","N","/","A">>, <<"#","N","/","A"," ","N","/","A">>, <<"#","N","A">>, <<"-","1",".","#","I","N","D">>, <<"-","1",".","#","Q","N","A","N">>,
      <<"-","N","a","N">>, <<"-","n","a","n">>, <<"1",".","#","I","N","D">>, <<"1",".","#","Q","N","A","N">>, <<"<","N","A",">">>, <<"N","/","A">>,
      <<"N","A">>, <<"N","U","L","L">>, <<"N","a","N">>, <<"N","o","n","e">>, <<"n","/","a">>, <<"n","a","n">>, <<"n","u","l","l">> }

\* pd.read_excel of the file df.to_excel wrote: a missing cell, and a text
\* that spells a missing value, is read as NaN
read_excel(df) ==
    [i \in DOMAIN df |-> [c \in DOMAIN df[i] |-> IF df[i][c] \in NaValues THEN NaN ELSE df[i][c]]]

\* The values of 'In Client Master'
TrueCell == <<"T","r","u","e">>

FalseCell == <<"F","a","l","s","e">>

\* A datetime.date, as get_post_date leaves it in the frame
DateCell(text) == IF text = NaN THEN NaN ELSE <<"<date>">> \o text

\* dict(zip(keys, values)) of two columns: the last row of a key wins
LastOf(table, key_column, key, value_column, default) ==
    IF \E k \in DOMAIN table : table[k][key_column] = key
    THEN table[MaxOf({k \in DOMAIN table : table[k][key_column] = key})][value_column]
    ELSE default

\* email.split('@')[1].split('.')[0]; Err for a cell that is no text
\* (AttributeError) or has no '@' (IndexError)
DomainOf(email) ==
    IF ~IsStr(email) THEN Err
    ELSE IF Len(Split(email, <<"@">>)) < 2 THEN Err
    ELSE Split(Split(email, <<"@">>)[2], <<".">>)[1]

\* A firm the map does not know, or knows as an empty cell, is the sentinel
get_firm_name(df, clients) ==
    IF \E i \in DOMAIN df : DomainOf(df[i]["Email"]) = Err THEN Raised
    ELSE Frame(MapRows(df, LAMBDA row :
                 [c \in DOMAIN row \cup {"Domain"} |->
                    IF c = "Domain" THEN DomainOf(row["Email"])
                    ELSE IF c = "Firm Name"
                    THEN IF LastOf(clients, "Domain", DomainOf(row["Email"]), "Client", NaN) = NaN
                         THEN Sentinel
                         ELSE LastOf(clients, "Domain", DomainOf(row["Email"]), "Client", NaN)
                    ELSE row[c]]))

\* The publishers main maps e-mail domains to firm names for
FirmNamePublishers == { <<"E","x","a","m","p","l","e"," ","P","u","b","l","i","s","h","e","r"," ","7">>, <<"E","x","a","m","p","l","e"," ","P","u","b","l","i","s","h","e","r"," ","8">> }

\* main: "Map the email domain to firm names, where possible"
MapFirmNames(df, publisher_name, clients) ==
    IF publisher_name \in FirmNamePublishers THEN get_firm_name(df, clients) ELSE Frame(df)

RECURSIVE FirstTrue(_, _)
\* The first row of the master, from row `from` on, whose entry of the mask
\* is true; 0 when the rows end without one
FirstTrue(mask, from) ==
    IF from > Len(mask) THEN 0
    ELSE IF mask[from] THEN from
    ELSE FirstTrue(mask, from + 1)

\* A resolver that compares the firm's name as it is spelt
get_client_info_exact_case(firm_name, clients) ==
    IF ~IsStr(firm_name) THEN Err
    ELSE LET first == FirstTrue([k \in DOMAIN clients |->
                        /\ IsStr(clients[k]["Client"])
                        /\ clients[k]["Client"] = firm_name], 1)
         IN IF first # 0
            THEN <<clients[first]["Investor Type"], clients[first]["Investor Style"], TrueCell>>
            ELSE <<Sentinel, Sentinel, FalseCell>>

\* mask = clients['Client'].str.upper() == firm_name.upper(); Err for a firm
\* name that is no text (AttributeError)
get_client_info(firm_name, clients) ==
    IF ~IsStr(firm_name) THEN Err
    ELSE LET first == FirstTrue([k \in DOMAIN clients |->
                        /\ IsStr(clients[k]["Client"])
                        /\ Upper(clients[k]["Client"]) = Upper(firm_name)], 1)
         IN IF first # 0
            THEN <<clients[first]["Investor Type"], clients[first]["Investor Style"], TrueCell>>
            ELSE <<Sentinel, Sentinel, FalseCell>>

\* client_row = clients[clients['Client'] == row['Firm Name']]
get_city_and_country(row, clients) ==
    LET first == FirstTrue([k \in DOMAIN clients |->
                   /\ IsStr(clients[k]["Client"])
                   /\ clients[k]["Client"] = row["Firm Name"]], 1)
    IN IF first = 0 THEN row
       ELSE [row EXCEPT
               !["City"] = IF clients[first]["City"] # Sentinel
                           THEN clients[first]["City"] ELSE @,
               !["Country"] = IF clients[first]["Country"] # Sentinel
                              THEN clients[first]["Country"] ELSE @]

\* A title resolution in which the last entry of the master that matches wins
add_shortened_title_last_match(report_title, titles) ==
    LET by_title == FirstTrue([k \in DOMAIN titles |->
                      Contains(Lower(report_title),
                               Lower(titles[Len(titles) + 1 - k]["Title"]))], 1)
    IN IF by_title # 0 THEN titles[Len(titles) + 1 - by_title]["Title"]
       ELSE report_title

\* The two loops of add_shortened_title
add_shortened_title(report_title, titles) ==
    LET by_title == FirstTrue([k \in DOMAIN titles |->
                      Contains(Lower(report_title), Lower(titles[k]["Title"]))], 1)
        by_content == FirstTrue([k \in DOMAIN titles |->
                        Contains(Lower(Replace(report_title, <<" ">>, <<>>)),
                                 Lower(Replace(titles[k]["Content"], <<" ">>, <<>>)))], 1)
    IN IF by_title # 0 THEN titles[by_title]["Title"]
       ELSE IF by_content # 0 THEN titles[by_content]["Title"]
       ELSE report_title

\* df['Post Date'] = df['Title'].map(post_date_map)
get_post_date(df, titles) ==
    MapRows(df, LAMBDA row :
      [row EXCEPT !["Post Date"] =
          DateCell(LastOf(titles, "Title", row["Title"], "Post Date", NaN))])

\* re.search(pat, s) finds a match, for a pattern of plain characters and
\* '.', which stands for any character (str.contains has regex=True)
Search(pat, s) ==
    \E i \in 1..(Len(s) + 1) :
        /\ i + Len(pat) - 1 <= Len(s)
        /\ \A j \in 1..Len(pat) : pat[j] = "." \/ pat[j] = s[i + j - 1]

\* master_data[master_data['Report Title'].str.contains(stock_code, na=False)]:
\* the .str accessor raises for a column that holds no text at all
StockCodeFilter(df, stock_code) ==
    IF df # <<>> /\ \A i \in DOMAIN df : ~IsStr(df[i]["Report Title"]) THEN Raised
    ELSE Frame(Filter(df, LAMBDA row :
                 IsStr(row["Report Title"]) /\ Search(stock_code, row["Report Title"])))

\* .assign(Investor Type, Investor Style, In Client Master): raises when
\* get_client_info raises on a row
AssignClientInfo(df, clients) ==
    IF \E i \in DOMAIN df : get_client_info(df[i]["Firm Name"], clients) = Err THEN Raised
    ELSE Frame(MapRows(df, LAMBDA row :
                 row @@ ("Investor Type" :> get_client_info(row["Firm Name"], clients)[1])
                     @@ ("Investor Style" :> get_client_info(row["Firm Name"], clients)[2])
                     @@ ("In Client Master" :> get_client_info(row["Firm Name"], clients)[3])))

\* main: "Process the master data"
ProcessMasterData(df, stock_code, clients) ==
    Bind(Bind(StockCodeFilter(df, stock_code), LAMBDA rows : AssignClientInfo(rows, clients)),
         LAMBDA rows : Frame(MapRows(rows, LAMBDA row : get_city_and_country(row, clients))))

\* main: "Add shortened title if there are any rows to process", before the
\* .dropna()
AddTitleAndPostDate(df, titles) ==
    IF df = <<>> THEN df
    ELSE get_post_date(
           MapRows(df, LAMBDA row :
             row @@ ("Title" :> add_shortened_title(row["Report Title"], titles))),
           titles)

\* The rows .dropna() keeps: those with no missing value in any column
NotNa(df) == {i \in DOMAIN df : \A c \in DOMAIN df[i] : df[i][c] # NaN}

\* A partition that hands the ledger the rows of the known clients
MissingClientsInMaster(df) == Filter(df, LAMBDA row : row["In Client Master"] = TrueCell)

\* master_data[master_data['In Client Master'] == False]
MissingClients(df) == Filter(df, LAMBDA row : row["In Client Master"] = FalseCell)

\* A file that does not exist, and a file with the rows written to it
NoFile == [exists |-> FALSE, rows |-> <<>>]

File(rows) == [exists |-> TRUE, rows |-> rows]

\* A date cell of an Excel file, which pd.read_excel gives as a Timestamp
TimestampCell(text) == <<"<timestamp>">> \o text

IsDateCell(v) == Len(v) > 0 /\ v[1] = "<date>"

\* df.to_excel(path, index=False): a datetime.date and a Timestamp are both
\* written as a date cell
to_excel(df) ==
    MapRows(df, LAMBDA row :
      [c \in DOMAIN row |-> IF IsDateCell(row[c]) THEN TimestampCell(Tail(row[c])) ELSE row[c]])

\* pd.concat([existing_df, new_df]).drop_duplicates(): rows equal in every
\* column are one row; a Timestamp and a datetime.date are different values
ConcatDropDuplicates(existing_df, new_df) ==
    DropDuplicates(existing_df \o new_df, DOMAIN new_df[1])

\* save_missing_clients(df, customer) on the customer's ledger file
save_missing_clients_overwrite(df, ledger_file) ==
    IF MissingClients(df) = <<>> THEN ledger_file
    ELSE File(to_excel(MissingClients(df)))

save_missing_clients(df, ledger_file) ==
    IF MissingClients(df) = <<>> THEN ledger_file
    ELSE IF ledger_file.exists
    THEN File(to_excel(ConcatDropDuplicates(read_excel(ledger_file.rows), MissingClients(df))))
    ELSE File(to_excel(MissingClients(df)))

\* The columns of the clean file
clean_columns == <<"Read Date", "Firm Name", "City", "Country", "Post Date",
                   "Report Title", "Title", "Platform", "Investor Type", "Investor Style">>

(***************************************************************************)
(* The inputs of the customer stage: the master files                      *)
(***************************************************************************)

ClientEntry(client, domain, type, style, city, country) ==
    ("Client" :> client) @@ ("Domain" :> domain) @@ ("Investor Type" :> type) @@
    ("Investor Style" :> style) @@ ("City" :> city) @@ ("Country" :> country)

\* The Client Master File: empty; one firm; or three entries, two of them the
\* same firm in different letter case and one with an empty Investor Style
ClientMasters ==
    { <<>>,
      << ClientEntry(<<"A","c","m","e">>, <<"a","c","m","e">>, <<"H","e","d","g","e"," ","F","u","n","d">>, <<"G","r","o","w","t","h">>,
                     <<"O","s","a","k","a">>, Sentinel) >>,
      << ClientEntry(<<"A","c","m","e">>, <<"a","c","m","e">>, <<"H","e","d","g","e"," ","F","u","n","d">>, <<"G","r","o","w","t","h">>,
                     <<"O","s","a","k","a">>, Sentinel),
         ClientEntry(<<"A","C","M","E">>, <<"a","c","m","e">>, <<"P","e","n","s","i","o","n">>, <<"V","a","l","u","e">>,
                     Sentinel, <<"J","a","p","a","n">>),
         ClientEntry(<<"B","e","t","a">>, <<"b","e","t","a">>, <<"B","a","n","k">>, NaN, Sentinel, Sentinel) >> }

TitleEntry(title, content, post_date) ==
    ("Title" :> title) @@ ("Content" :> content) @@ ("Post Date" :> post_date)

\* The customer's Report Title Master File: two titles, one a part of the
\* other, in either order; the second master also has a title that only its
\* Content finds; the third has one title, its Content with a line break;
\* the fourth has one title twice, posted on different days
TitleMasters ==
    { << TitleEntry(<<"Q","2"," ","R","e","s","u","l","t","s">>, <<"S","e","c","o","n","d"," ","q","u","a","r","t","e","r">>, <<"2","0","2","4","-","0","3","-","0","1">>),
         TitleEntry(<<"Q","2"," ","R","e","s","u","l","t","s">>, <<"S","e","c","o","n","d"," ","q","u","a","r","t","e","r">>, <<"2","0","2","4","-","0","3","-","0","4">>) >> } \cup
    { << TitleEntry(<<"M","i","s","c">>, <<"1","2","3","4","\n","O","t","h","e","r">>, <<"2","0","2","4","-","0","3","-","0","3">>) >>,
      << TitleEntry(<<"Q","2"," ","R","e","s","u","l","t","s">>, <<"S","e","c","o","n","d"," ","q","u","a","r","t","e","r">>, <<"2","0","2","4","-","0","3","-","0","1">>),
         TitleEntry(<<"Q","2"," ","R","e","s","u","l","t","s"," ","U","p","d","a","t","e">>, <<"S","e","c","o","n","d"," ","q","u","a","r","t","e","r"," ","u","p","d","a","t","e">>, <<"2","0","2","4","-","0","3","-","0","2">>) >>,
      << TitleEntry(<<"Q","2"," ","R","e","s","u","l","t","s"," ","U","p","d","a","t","e">>, <<"S","e","c","o","n","d"," ","q","u","a","r","t","e","r"," ","u","p","d","a","t","e">>, <<"2","0","2","4","-","0","3","-","0","2">>),
         TitleEntry(<<"Q","2"," ","R","e","s","u","l","t","s">>, <<"S","e","c","o","n","d"," ","q","u","a","r","t","e","r">>, <<"2","0","2","4","-","0","3","-","0","1">>),
         TitleEntry(<<"M","i","s","c">>, <<"O","t","h"," ","e","r">>, <<"2","0","2","4","-","0","3","-","0","3">>) >> }

\* str(CUSTOMERS.get(customer)) of the customers of the model: a plain code
\* and a code with an exchange suffix
StockCodes == { <<"1","2","3","4">>, <<"1","2","3","4",".","Q">> }

(***************************************************************************)
(* The runs: pre-cleaning of one publisher, then the customer stage        *)
(***************************************************************************)

VARIABLES
    pc,                      \* the step the run is at
    publisher,               \* the publisher of the run
    files,                   \* the rows of the publisher's export files
    CUSTOM_COUNTRY_MAPPING,  \* params.py: the country override table
    CUSTOM_CITY_MAPPING,     \* params.py: the city alias table
    prepared,                \* the frame the adapter hands to process_columns
    precleaned,              \* the result of preclean_data
    again,                   \* the canonicalizer applied to its own output
    clients,                 \* the Client Master File
    titles,                  \* the customer's Report Title Master File
    stock_code,              \* the customer's stock code, as text
    master_data,             \* main: the pre-cleaned file as read
    processed,               \* main: master_data after "Process the master data"
    titled,                  \* main: master_data with Title and Post Date, before .dropna()
    missing_clients,         \* main: the frame handed to save_missing_clients
    clean,                   \* main: the frame handed to save_clean_file
    ledger,                  \* the customer's Missing Clients file
    ledger_before,           \* the customer's Missing Clients file when the run began
    PUBLISHERS,              \* params.py: the publishers, in the order of the master file
    uncleaned,               \* the rows of the export files in each publisher's folder
    title_files,             \* each customer's Report Title Master File
    precleaned_files,        \* each publisher's file in the 02_Precleaned folder
    clean_files,             \* the Clean Data file of each customer and publisher
    ledgers,                 \* each customer's Missing Clients file
    combined,                \* the file All Missing Clients.xlsx
    publisher_no,            \* cleaning_all_rawdata.main: the publisher the loop is at
    customer_no,             \* cleaning_all_rawdata.main: the customer the loop is at
    self_customer,           \* app.py: the customer of CleanCustomerData (self.customer)
    message,                 \* app.py: the text of the message box the run ends with
    readership_files,        \* each customer's Readership File
    today,                   \* the date of datetime.now()
    precleaned_folder,       \* the files of each publisher's 02_Precleaned folder, by name
    run_no                   \* the runs of all publishers begun so far

inputs == <<publisher, files, CUSTOM_COUNTRY_MAPPING, CUSTOM_CITY_MAPPING>>

masters == <<clients, titles, stock_code>>

customer == <<master_data, processed, titled, missing_clients, clean>>

persisted == <<ledger, ledger_before>>

configuration == <<PUBLISHERS, uncleaned, title_files>>

disk == <<precleaned_files, clean_files, ledgers, combined>>

report == <<readership_files, today>>

all_run == <<configuration, disk, publisher_no, customer_no, report>>

app == <<self_customer, message>>

runs == <<precleaned_folder, run_no>>

vars == <<pc, inputs, prepared, precleaned, again, masters, customer, persisted, all_run, app,
          runs>>

\* remove_duplicates as each adapter passes it to process_columns
RemoveDuplicatesOf(p) == p \notin {4, 6, 7}

\* Nothing has run, no master file of the customer stage is read
NotRun ==
    /\ pc = "start"
    /\ clients = <<>>
    /\ titles = <<>>
    /\ stock_code = <<>>
    /\ prepared = Raised
    /\ precleaned = Raised
    /\ again = Raised
    /\ master_data = <<>>
    /\ processed = Raised
    /\ titled = Raised
    /\ missing_clients = Raised
    /\ clean = Raised
    /\ ledger = NoFile
    /\ ledger_before = NoFile

\* The run is not one of the window: no customer is chosen, no box is shown
NoWindow ==
    /\ self_customer = ""
    /\ message = ""
    /\ readership_files = <<>>
    /\ today = <<>>
    /\ precleaned_folder = <<>>
    /\ run_no = 0

\* The run is of one publisher: the loop of the run of all publishers is idle
OnePublisher ==
    /\ PUBLISHERS = <<>>
    /\ uncleaned = <<>>
    /\ title_files = <<>>
    /\ precleaned_files = <<>>
    /\ clean_files = <<>>
    /\ ledgers = <<>>
    /\ combined = NoFile
    /\ publisher_no = 0
    /\ customer_no = 0

\* A pre-cleaning run of a publisher
Init ==
    /\ publisher \in Publishers
    /\ files \in FileRows(publisher)
    /\ CUSTOM_COUNTRY_MAPPING \in CountryTables
    /\ CUSTOM_CITY_MAPPING \in CityTables
    /\ NotRun
    /\ OnePublisher
    /\ NoWindow

\* cleaning_rawdata.main up to the pre-cleaned frame
Preclean ==
    /\ pc = "start"
    /\ prepared' = prepare_data(get_data(files), publisher)
    /\ precleaned' = preclean_data(get_data(files), publisher,
                                   CUSTOM_COUNTRY_MAPPING, CUSTOM_CITY_MAPPING)
    /\ pc' = "precleaned"
    /\ UNCHANGED <<inputs, again, masters, customer, persisted, all_run, app, runs>>

\* The canonicalizer applied a second time, to the adapter's output
Recanonicalize ==
    /\ pc = "precleaned"
    /\ precleaned.ok
    /\ again' = Canonicalize(precleaned.rows, RemoveDuplicatesOf(publisher),
                             CUSTOM_COUNTRY_MAPPING, CUSTOM_CITY_MAPPING)
    /\ pc' = "recanonicalized"
    /\ UNCHANGED <<inputs, prepared, precleaned, masters, customer, persisted, all_run, app, runs>>

Next == Preclean \/ Recanonicalize

Spec == Init /\ [][Next]_vars

\* A run of the publisher and of one customer, the mapping files empty
InitCustomer ==
    /\ publisher \in Publishers
    /\ files \in FileRows(publisher)
    /\ CUSTOM_COUNTRY_MAPPING = EmptyTable
    /\ CUSTOM_CITY_MAPPING = EmptyTable
    /\ NotRun
    /\ OnePublisher
    /\ NoWindow

\* main: the frames made from the rows of the pre-cleaned file, with the
\* master files and the stock code the run reads
CustomerFrames(file_rows, publisher_name, c, t, s) ==
    /\ clients' = c
    /\ titles' = t
    /\ stock_code' = s
    /\ master_data' = read_excel(file_rows)
    /\ processed' = Bind(MapFirmNames(master_data', publisher_name, c),
                         LAMBDA rows : ProcessMasterData(rows, s, c))
    /\ titled' = Bind(processed', LAMBDA rows : Frame(AddTitleAndPostDate(rows, t)))
    /\ missing_clients' = Bind(titled', LAMBDA rows :
                                 Frame(MissingClients(SubFrame(rows, NotNa(rows)))))
    /\ clean' = Bind(titled', LAMBDA rows :
                       Frame(Reindex(SubFrame(rows, NotNa(rows)), clean_columns)))

\* save_clean_file: the folder '01_Clean Data' with the frame written to the
\* file '{customer} {publisher} Clean Data.xlsx'; a file of that name is
\* replaced
save_clean_file(folder, df, customer_name, publisher_name) ==
    [f \in DOMAIN folder \cup {<<customer_name, publisher_name>>} |->
        IF f = <<customer_name, publisher_name>> THEN File(to_excel(df)) ELSE folder[f]]

\* cleaning_customer.main for the publisher of the run: the frames, the
\* customer's Missing Clients file and the Clean Data file it saves; the
\* customer is named by its stock code
RunCustomer(c, t, s) ==
    /\ CustomerFrames(precleaned.rows, PlatformName(publisher), c, t, s)
    /\ ledger_before' = ledger
    /\ ledger' = IF missing_clients'.ok
                 THEN save_missing_clients(missing_clients'.rows, ledger)
                 ELSE ledger
    /\ clean_files' = IF clean'.ok
                      THEN save_clean_file(clean_files, clean'.rows, s, publisher)
                      ELSE clean_files
    /\ pc' = "cleaned"
    /\ UNCHANGED <<inputs, prepared, precleaned, again, configuration, precleaned_files,
                   ledgers, combined, publisher_no, customer_no, report, app, runs>>

\* The first run of a customer on the pre-cleaned file
CustomerMain ==
    /\ pc = "precleaned"
    /\ precleaned.ok
    /\ \E c \in ClientMasters, t \in TitleMasters, s \in StockCodes : RunCustomer(c, t, s)

NextCustomer == Preclean \/ CustomerMain

SpecCustomer == InitCustomer /\ [][NextCustomer]_vars

\* The runs of one customer on the files of publisher 1, one after another
InitLedger == InitCustomer /\ publisher = 1

\* A later run of the same customer on the same pre-cleaned file, the Client
\* Master File as it is by then
CustomerMainAgain ==
    /\ pc = "cleaned"
    /\ \E c \in ClientMasters : RunCustomer(c, titles, stock_code)

NextLedger == Preclean \/ CustomerMain \/ CustomerMainAgain

SpecLedger == InitLedger /\ [][NextLedger]_vars

(***************************************************************************)
(* cleaning_all_rawdata.py: the run of all publishers for all customers    *)
(***************************************************************************)

\* params.py: the Customer Stock Code Master File, customer to stock code
CUSTOMERS ==
    ("Alpha" :> <<"1","2","3","4">>) @@ ("Omega" :> <<"9","9","9","9">>)

\* The customers in the order of the master file
CustomerOrder == <<"Alpha", "Omega">>

\* The export files of a publisher in a run of all publishers: none, or one
\* row of an event read on the 5th (a report of 9999), or on the 7th or the
\* 8th (reports of 1234)
AllRunFiles(p) ==
    {<<>>} \cup {<<FileRow(p, e)>> : e \in {ev \in Events : ev.day \in {5, 8} \/ (ev.day = 7 /\ ~ev.dayfirst)}}

\* A customer's Report Title Master File, when the customer has one
TitleFiles == {NoFile} \cup {File(t) : t \in {m \in TitleMasters : Len(m) = 3}}

RECURSIVE Concat(_)
\* pd.concat(dfs, ignore_index=True) of frames with the same columns
Concat(dfs) == IF dfs = <<>> THEN <<>> ELSE Head(dfs) \o Concat(Tail(dfs))

\* os.listdir of the Missing Clients folder: the ledgers, and the combined
\* file of an earlier run
MissingClientsFolder(ledger_files, combined_file) ==
    SelectSeq([k \in DOMAIN CustomerOrder |-> ledger_files[CustomerOrder[k]]] \o <<combined_file>>,
              LAMBDA file : file.exists)

\* A call that writes the combined file of an empty folder too
combine_missing_client_files_always(ledger_files, combined_file) ==
    File(to_excel(SortValues(
           Concat([k \in DOMAIN MissingClientsFolder(ledger_files, combined_file) |->
                     read_excel(MissingClientsFolder(ledger_files, combined_file)[k].rows)]),
           "Firm Name", TRUE)))

\* The file All Missing Clients.xlsx after the call
combine_missing_client_files(ledger_files, combined_file) ==
    IF MissingClientsFolder(ledger_files, combined_file) = <<>> THEN combined_file
    ELSE File(to_excel(SortValues(
                Concat([k \in DOMAIN MissingClientsFolder(ledger_files, combined_file) |->
                          read_excel(MissingClientsFolder(ledger_files, combined_file)[k].rows)]),
                "Firm Name", TRUE)))

\* The run of all publishers begins: nothing is written yet
InitAll ==
    /\ \E a \in Publishers, b \in Publishers :
          /\ a < b
          /\ PUBLISHERS = <<a, b>>
          /\ \E fa \in AllRunFiles(a), fb \in AllRunFiles(b) : uncleaned = (a :> fa) @@ (b :> fb)
          /\ precleaned_files = (a :> NoFile) @@ (b :> NoFile)
          /\ clean_files = [f \in (DOMAIN CUSTOMERS) \X {a, b} |-> NoFile]
    /\ title_files \in [DOMAIN CUSTOMERS -> TitleFiles]
    /\ ledgers = [c \in DOMAIN CUSTOMERS |-> NoFile]
    /\ combined = NoFile
    /\ publisher_no = 1
    /\ customer_no = 1
    /\ publisher = 0
    /\ files = <<>>
    /\ CUSTOM_COUNTRY_MAPPING = EmptyTable
    /\ CUSTOM_CITY_MAPPING = EmptyTable
    /\ clients \in {c \in ClientMasters : Len(c) # 1}
    /\ titles = <<>>
    /\ stock_code = <<>>
    /\ prepared = Raised
    /\ precleaned = Raised
    /\ again = Raised
    /\ master_data = <<>>
    /\ processed = Raised
    /\ titled = Raised
    /\ missing_clients = Raised
    /\ clean = Raised
    /\ ledger = NoFile
    /\ ledger_before = NoFile
    /\ self_customer = ""
    /\ message = ""
    /\ readership_files = [c \in DOMAIN CUSTOMERS |-> NoFile]
    /\ today = <<>>
    /\ precleaned_folder = <<>>
    /\ run_no = 0
    /\ pc = "publisher"

\* The loop goes on to the next publisher, or the publishers are done
NextPublisher ==
    /\ customer_no' = 1
    /\ IF publisher_no < Len(PUBLISHERS)
       THEN publisher_no' = publisher_no + 1 /\ pc' = "publisher"
       ELSE publisher_no' = publisher_no /\ pc' = "combine"

\* main, one pass of the loop over the publishers up to the loop over the
\* customers: a publisher without files is passed over; the pre-cleaned
\* file of the others is saved, unless an error ends the run
AllPublisher ==
    /\ pc = "publisher"
    /\ publisher' = PUBLISHERS[publisher_no]
    /\ files' = uncleaned[publisher']
    /\ IF files' = <<>>
       THEN /\ NextPublisher
            /\ UNCHANGED <<prepared, precleaned, precleaned_files>>
       ELSE /\ prepared' = prepare_data(get_data(files'), publisher')
            /\ precleaned' = preclean_data(get_data(files'), publisher',
                                           CUSTOM_COUNTRY_MAPPING, CUSTOM_CITY_MAPPING)
            /\ precleaned_files' = IF precleaned'.ok
                                   THEN [precleaned_files EXCEPT ![publisher'] = File(to_excel(precleaned'.rows))]
                                   ELSE precleaned_files
            /\ pc' = IF precleaned'.ok THEN "customer" ELSE "aborted"
            /\ UNCHANGED <<publisher_no, customer_no>>
    /\ UNCHANGED <<CUSTOM_COUNTRY_MAPPING, CUSTOM_CITY_MAPPING, again, masters, customer,
                   persisted, configuration, clean_files, ledgers, combined, app, runs, report>>

\* main, one pass of the loop over the customers, on the rows of the latest
\* pre-cleaned file: the customer's rows, the Missing Clients file and the
\* Clean Data file; get_titles raises for a customer without a title master
CustomerPass(file_rows) ==
    /\ IF title_files[CustomerOrder[customer_no]].exists
       THEN CustomerFrames(file_rows, PlatformName(publisher), clients,
                           read_excel(title_files[CustomerOrder[customer_no]].rows),
                           CUSTOMERS[CustomerOrder[customer_no]])
       ELSE /\ stock_code' = CUSTOMERS[CustomerOrder[customer_no]]
            /\ master_data' = read_excel(file_rows)
            /\ processed' = Bind(MapFirmNames(master_data', PlatformName(publisher), clients),
                                 LAMBDA rows : ProcessMasterData(rows, stock_code', clients))
            /\ titled' = Raised
            /\ missing_clients' = Raised
            /\ clean' = Raised
            /\ UNCHANGED <<clients, titles>>
    /\ IF clean'.ok
       THEN /\ ledgers' = [ledgers EXCEPT ![CustomerOrder[customer_no]] =
                              save_missing_clients(missing_clients'.rows, @)]
            /\ clean_files' = [clean_files EXCEPT ![<<CustomerOrder[customer_no], publisher>>] =
                                  File(to_excel(clean'.rows))]
            /\ IF customer_no < Len(CustomerOrder)
               THEN customer_no' = customer_no + 1 /\ pc' = "customer" /\ UNCHANGED publisher_no
               ELSE NextPublisher
       ELSE /\ pc' = "aborted"
            /\ UNCHANGED <<ledgers, clean_files, publisher_no, customer_no>>

\* The pass of a run that began with an empty disk: the folder of the
\* publisher holds the one file the run saved
AllCustomer ==
    /\ pc = "customer"
    /\ CustomerPass(precleaned_files[publisher].rows)
    /\ UNCHANGED <<inputs, prepared, precleaned, again, persisted, configuration,
                   precleaned_files, combined, app, runs, report>>

\* main, after the loops: the combined file of the missing clients
AllCombine ==
    /\ pc = "combine"
    /\ combined' = combine_missing_client_files(ledgers, combined)
    /\ pc' = "done"
    /\ UNCHANGED <<inputs, prepared, precleaned, again, masters, customer, persisted,
                   configuration, precleaned_files, clean_files, ledgers,
                   publisher_no, customer_no, app, runs, report>>


(***************************************************************************)
(* create_readership.py: the readership report of each customer            *)
(***************************************************************************)

\* The dates the report can be made on
ProcessingDates == { <<"2","0","2","4","-","0","3","-","1","0">>, <<"2","0","2","4","-","0","3","-","1","1">> }

\* x.dt.date of a cell of a datetime column
dt_date(v) == IF Len(v) > 0 /\ v[1] = "<timestamp>" THEN DateCell(Tail(v)) ELSE v

\* drop(columns=[col])
Drop(df, col) == [i \in DOMAIN df |-> [c \in DOMAIN df[i] \ {col} |-> df[i][c]]]

\* os.listdir of the customer's folder 01_Clean Data
CleanDataFolder(name) ==
    SelectSeq([k \in DOMAIN PUBLISHERS |-> clean_files[<<name, PUBLISHERS[k]>>]],
              LAMBDA file : file.exists)

\* A report with the latest reading first
ReadershipDescending(name, now) ==
    MapRows(Drop(SortValues(Concat([k \in DOMAIN CleanDataFolder(name) |->
                                      read_excel(CleanDataFolder(name)[k].rows)]),
                            "Read Date", FALSE),
                 "Report Title"),
            LAMBDA row : [c \in DOMAIN row \cup {"Updated On"} |->
                            IF c = "Updated On" THEN dt_date(TimestampCell(now))
                            ELSE IF c = "Post Date" THEN dt_date(row[c])
                            ELSE row[c]])

\* The frame main saves as the customer's Readership File
Readership(name, now) ==
    MapRows(Drop(SortValues(Concat([k \in DOMAIN CleanDataFolder(name) |->
                                      read_excel(CleanDataFolder(name)[k].rows)]),
                            "Read Date", TRUE),
                 "Report Title"),
            LAMBDA row : [c \in DOMAIN row \cup {"Updated On"} |->
                            IF c = "Updated On" THEN dt_date(TimestampCell(now))
                            ELSE IF c = "Post Date" THEN dt_date(row[c])
                            ELSE row[c]])

\* The customers main makes the report of: those before the first customer
\* without a Clean Data file, where pd.concat raises and ends the run
Reported ==
    {CustomerOrder[k] : k \in {j \in DOMAIN CustomerOrder :
                                 \A i \in 1..j : CleanDataFolder(CustomerOrder[i]) # <<>>}}

\* create_readership.main, after a run of all publishers
CreateReadership ==
    /\ pc = "done"
    /\ today' \in ProcessingDates
    /\ readership_files' = [c \in DOMAIN readership_files |->
                              IF c \in Reported THEN File(to_excel(Readership(c, today')))
                              ELSE readership_files[c]]
    /\ pc' = "readership"
    /\ UNCHANGED <<inputs, prepared, precleaned, again, masters, customer, persisted,
                   configuration, disk, publisher_no, customer_no, app, runs>>

NextAll == AllPublisher \/ AllCustomer \/ AllCombine \/ CreateReadership

SpecAll == InitAll /\ [][NextAll]_vars

(***************************************************************************)
(* app.py: the window "Clean Customer Data"                                *)
(***************************************************************************)

\* The names a customer run can be given: two customers of the stock code
\* master, a name the master does not have, and no choice at all
CustomerNames == {"Alpha", "Omega", "Gamma", ""}

\* str(CUSTOMERS.get(customer)): the text 'None' for a name without an entry
StockCodeOf(name) ==
    IF name \in DOMAIN CUSTOMERS THEN CUSTOMERS[name] ELSE <<"N","o","n","e">>

\* The message box of button_event for the exception clean_customer ended
\* with, "" for none
MessageOf(exception) ==
    CASE exception = "" -> "Data was cleaned successfully."
      [] exception = "KeyError" -> "An error occurred: Please select a publisher and try again."
      [] OTHER -> "An error occurred: " \o exception \o ", please contact an admin."

\* The pre-cleaned file of a publisher that pre-cleaning the export rows left
PrecleanedFile(p, file_rows) ==
    IF preclean_data(get_data(file_rows), p, EmptyTable, EmptyTable).ok
    THEN File(to_excel(preclean_data(get_data(file_rows), p, EmptyTable, EmptyTable).rows))
    ELSE NoFile

\* The window is open; the publisher is one of the master or none (0), and
\* has at most one pre-cleaned file
InitApp ==
    /\ PUBLISHERS = [k \in Publishers |-> k]
    /\ publisher \in {0} \cup Publishers
    /\ self_customer \in CustomerNames
    /\ title_files \in [CustomerNames -> TitleFiles]
    /\ \E p \in Publishers : \E f \in AllRunFiles(p) :
          /\ p = IF publisher = 0 THEN 1 ELSE publisher
          /\ precleaned_files = [q \in Publishers |-> IF q = p THEN PrecleanedFile(p, f) ELSE NoFile]
    /\ clean_files = [f \in CustomerNames \X Publishers |-> NoFile]
    /\ ledgers = [c \in CustomerNames |-> NoFile]
    /\ clients \in {c \in ClientMasters : Len(c) # 1}
    /\ uncleaned = <<>>
    /\ combined = NoFile
    /\ publisher_no = 0
    /\ customer_no = 0
    /\ files = <<>>
    /\ CUSTOM_COUNTRY_MAPPING = EmptyTable
    /\ CUSTOM_CITY_MAPPING = EmptyTable
    /\ titles = <<>>
    /\ stock_code = <<>>
    /\ prepared = Raised
    /\ precleaned = Raised
    /\ again = Raised
    /\ master_data = <<>>
    /\ processed = Raised
    /\ titled = Raised
    /\ missing_clients = Raised
    /\ clean = Raised
    /\ ledger = NoFile
    /\ ledger_before = NoFile
    /\ message = ""
    /\ readership_files = <<>>
    /\ today = <<>>
    /\ precleaned_folder = <<>>
    /\ run_no = 0
    /\ pc = "window"

\* cleaning_customer.main ends with an exception before it reads the
\* pre-cleaned file: get_titles finds no title master of the customer, the
\* publisher has no folder of pre-cleaned files, or the folder is empty
EndsBeforeFrames ==
    CASE ~title_files[self_customer].exists -> "FileNotFoundError"
      [] publisher \notin Range(PUBLISHERS) -> "FileNotFoundError"
      [] ~precleaned_files[publisher].exists -> "IndexError"
      [] OTHER -> ""

\* CleanCustomerData.button_event: clean_customer(publisher, customer) and
\* the message box
button_event ==
    /\ pc = "window"
    /\ IF EndsBeforeFrames # ""
       THEN /\ message' = MessageOf(EndsBeforeFrames)
            /\ UNCHANGED <<masters, customer, ledgers, clean_files>>
       ELSE /\ CustomerFrames(precleaned_files[publisher].rows, PlatformName(publisher), clients,
                              read_excel(title_files[self_customer].rows),
                              StockCodeOf(self_customer))
            /\ message' = MessageOf(IF clean'.ok THEN "" ELSE "AttributeError")
            /\ ledgers' = IF clean'.ok
                          THEN [ledgers EXCEPT ![self_customer] =
                                  save_missing_clients(missing_clients'.rows, @)]
                          ELSE ledgers
            /\ clean_files' = IF clean'.ok
                              THEN [clean_files EXCEPT ![<<self_customer, publisher>>] =
                                      File(to_excel(clean'.rows))]
                              ELSE clean_files
    /\ pc' = "reported"
    /\ UNCHANGED <<inputs, prepared, precleaned, again, persisted, configuration,
                   precleaned_files, combined, publisher_no, customer_no, self_customer,
                   report, runs>>

NextApp == button_event

SpecApp == InitApp /\ [][NextApp]_vars

(***************************************************************************)
(* cleaning_all_rawdata.py: runs of all publishers, one after another      *)
(***************************************************************************)

\* Most runs of all publishers
MaxRuns == 2

\* f'{current_date} {publisher} Precleaned.xlsx'
PrecleanedName(current_date, p) ==
    current_date \o <<" ">> \o PlatformName(p)
                 \o <<" ","P","r","e","c","l","e","a","n","e","d",".","x","l","s","x">>

\* save_precleaned_file: the folder with the frame written to the file of
\* the current date; a file of that name is replaced
save_precleaned_file(folder, df, current_date, p) ==
    [n \in DOMAIN folder \cup {PrecleanedName(current_date, p)} |->
        IF n = PrecleanedName(current_date, p) THEN File(to_excel(df)) ELSE folder[n]]

\* The first of the sorted names
EarliestName(folder) ==
    CHOOSE n \in DOMAIN folder : \A m \in DOMAIN folder : m = n \/ StrLess(n, m)

\* sorted(os.listdir(path), reverse=True)[0]
LatestName(folder) ==
    CHOOSE n \in DOMAIN folder : \A m \in DOMAIN folder : m = n \/ StrLess(m, n)

\* The first run of all publishers begins on one of the dates: one
\* publisher, its folder of pre-cleaned files empty, nothing written yet
InitRuns ==
    /\ PUBLISHERS = <<1>>
    /\ uncleaned \in [{1} -> AllRunFiles(1)]
    /\ precleaned_folder = (1 :> <<>>)
    /\ precleaned_files = <<>>
    /\ clean_files = [f \in (DOMAIN CUSTOMERS) \X {1} |-> NoFile]
    /\ title_files \in [DOMAIN CUSTOMERS -> TitleFiles]
    /\ ledgers = [c \in DOMAIN CUSTOMERS |-> NoFile]
    /\ combined = NoFile
    /\ today \in ProcessingDates
    /\ run_no = 1
    /\ publisher_no = 1
    /\ customer_no = 1
    /\ publisher = 0
    /\ files = <<>>
    /\ CUSTOM_COUNTRY_MAPPING = EmptyTable
    /\ CUSTOM_CITY_MAPPING = EmptyTable
    /\ clients \in {c \in ClientMasters : Len(c) # 1}
    /\ titles = <<>>
    /\ stock_code = <<>>
    /\ prepared = Raised
    /\ precleaned = Raised
    /\ again = Raised
    /\ master_data = <<>>
    /\ processed = Raised
    /\ titled = Raised
    /\ missing_clients = Raised
    /\ clean = Raised
    /\ ledger = NoFile
    /\ ledger_before = NoFile
    /\ self_customer = ""
    /\ message = ""
    /\ readership_files = [c \in DOMAIN CUSTOMERS |-> NoFile]
    /\ pc = "publisher"

\* main, one pass of the loop over the publishers up to the loop over the
\* customers, the pre-cleaned file saved under the name of the current date
RunsPublisher ==
    /\ pc = "publisher"
    /\ publisher' = PUBLISHERS[publisher_no]
    /\ files' = uncleaned[publisher']
    /\ IF files' = <<>>
       THEN /\ NextPublisher
            /\ UNCHANGED <<prepared, precleaned, precleaned_folder>>
       ELSE /\ prepared' = prepare_data(get_data(files'), publisher')
            /\ precleaned' = preclean_data(get_data(files'), publisher',
                                           CUSTOM_COUNTRY_MAPPING, CUSTOM_CITY_MAPPING)
            /\ precleaned_folder' =
                  IF precleaned'.ok
                  THEN [precleaned_folder EXCEPT ![publisher'] =
                          save_precleaned_file(@, precleaned'.rows, today, publisher')]
                  ELSE precleaned_folder
            /\ pc' = IF precleaned'.ok THEN "customer" ELSE "aborted"
            /\ UNCHANGED <<publisher_no, customer_no>>
    /\ UNCHANGED <<CUSTOM_COUNTRY_MAPPING, CUSTOM_CITY_MAPPING, again, masters, customer,
                   persisted, configuration, disk, app, report, run_no>>

\* main, one pass of the loop over the customers: the file read is the
\* first of the folder's names sorted in reverse
RunsCustomer ==
    /\ pc = "customer"
    /\ CustomerPass(precleaned_folder[publisher][LatestName(precleaned_folder[publisher])].rows)
    /\ UNCHANGED <<inputs, prepared, precleaned, again, persisted, configuration,
                   precleaned_files, combined, app, runs, report>>

\* main is started again, on the same day or a later one, with the export
\* files that are in the publishers' folders by then
RunAgain ==
    /\ pc \in {"done", "aborted"}
    /\ run_no < MaxRuns
    /\ run_no' = run_no + 1
    /\ today' \in {d \in ProcessingDates : ~StrLess(d, today)}
    /\ uncleaned' \in [DOMAIN uncleaned -> AllRunFiles(1)]
    /\ publisher_no' = 1
    /\ customer_no' = 1
    /\ pc' = "publisher"
    /\ UNCHANGED <<inputs, prepared, precleaned, again, masters, customer, persisted,
                   PUBLISHERS, title_files, disk, readership_files, app,
                   precleaned_folder>>

NextRuns == RunsPublisher \/ RunsCustomer \/ AllCombine \/ RunAgain

SpecRuns == InitRuns /\ [][NextRuns]_vars

(***************************************************************************)
(* The claims about the pre-cleaning stage (specification Spec)            *)
(***************************************************************************)

\* The rows of the batch that passed the adapter's filters
Prepared == prepared.rows

\* The column of those rows that holds the publisher's transaction key
KeyColumn(p) == IF p = 2 THEN "Readership Event ID" ELSE "Transaction ID"

\* A transaction key the publisher supplied: a text that is no placeholder
GenuineKey(v) == IsStr(v) /\ v # Sentinel /\ v \notin Placeholders

\* No key: the cell is missing, reads 'nan', or is the sentinel
NoKey(v) == v \in {NaN, <<"n","a","n">>, Sentinel}

\* The adapter has returned a frame
Precleaned == pc = "precleaned" /\ precleaned.ok

\* C1: for the adapters with the default deduplication (1, 2, 3, 5, 8), every
\* Transaction ID of a row that passed the filters is the Transaction ID of
\* exactly one row of the output.
C1_OneRowPerTransactionID ==
    (Precleaned /\ publisher \in {1, 2, 3, 5, 8}) =>
        \A i \in DOMAIN Prepared :
            GenuineKey(Prepared[i][KeyColumn(publisher)]) =>
                Cardinality({j \in DOMAIN precleaned.rows :
                               precleaned.rows[j]["Transaction ID"] =
                                 Prepared[i][KeyColumn(publisher)]}) = 1

\* C2: rows without a genuine Transaction ID are not collapsed with one
\* another: the output has at least as many rows without a key as passed the
\* adapter's filters.
C2_RowsWithoutKeySurvive ==
    Precleaned =>
        Cardinality({j \in DOMAIN precleaned.rows :
                       precleaned.rows[j]["Transaction ID"] \in {NaN, Sentinel}})
          >= Cardinality({i \in DOMAIN Prepared : NoKey(Prepared[i][KeyColumn(publisher)])})

\* What process_columns is to make of a cell outside City and Country
Canonical(v) == IF v \in Placeholders THEN Sentinel ELSE v

\* The row of the output is the canonical form of the row that passed the
\* filters (City and Country, which the mapping tables rewrite, left aside)
SameRecord(out, row) ==
    \A c \in Range(column_order) \ {"City", "Country"} : out[c] = Canonical(row[c])

HasMarker(firm) ==
    \E i \in 1..Len(firm) : \E j \in i..Len(firm) : Lower(SubSeq(firm, i, j)) = Marker

\* The column of the export file that holds the firm's name
FirmColumn(p) ==
    CASE p = 1 -> "Customer Name"
      [] p = 2 -> "Parent Firm name"
      [] p \in {3, 5} -> "Client Name"
      [] p = 4 -> "Firm Name"

\* C4: for adapters 1 to 6 no row of the output has a Firm Name with the
\* undisclosed marker in any letter case, and the disclosure filter passes
\* exactly the rows of the batch whose firm is without the marker (adapter 6
\* sets every Firm Name to the sentinel itself).
C4_MarkedFirmsExcluded ==
    (Precleaned /\ publisher \in 1..6) =>
        /\ \A j \in DOMAIN precleaned.rows : ~HasMarker(precleaned.rows[j]["Firm Name"])
        /\ publisher \in 1..5 =>
             [i \in DOMAIN Prepared |-> Prepared[i]["Firm Name"]]
               = SelectSeq([i \in DOMAIN files |-> AsStr(files[i][FirmColumn(publisher)])],
                           LAMBDA firm : ~HasMarker(firm))

\* C4's case: the batch of adapter 4 has the row of 'Non-Disclosed Company
\* Name' and a row of another firm; the output has the other row alone
C4_Witness ==
    /\ Precleaned
    /\ publisher = 4
    /\ Len(files) = 2
    /\ files[1]["Firm Name"] = <<"N","o","n","-","D","i","s","c","l","o","s","e","d"," ","C","o","m","p","a","n","y"," ","N","a","m","e">>
    /\ ~HasMarker(files[2]["Firm Name"])
    /\ Len(precleaned.rows) = 1
    /\ precleaned.rows[1]["Firm Name"] = files[2]["Firm Name"]

\* C5: canonicalization is idempotent: applied to the adapter's output it
\* returns the same rows, values and order.
C5_CanonicalizeIdempotent ==
    pc = "recanonicalized" => again = precleaned

(***************************************************************************)
(* The claims about the customer stage (specification SpecCustomer)        *)
(***************************************************************************)

\* The least of a set of row numbers
MinOf(S) == CHOOSE x \in S : \A y \in S : x <= y

\* The entries of the title master whose Title is part of the report title,
\* letter case ignored
TitleMatches(report_title) ==
    {k \in DOMAIN titles : Contains(Lower(report_title), Lower(titles[k]["Title"]))}

\* C6: when the Title of some entry of the title master is part of the
\* report title, letter case ignored, the row's Title is that of the earliest
\* such entry of the master.
C6_FirstTitleMatchWins ==
    (pc = "cleaned" /\ titled.ok) =>
        \A i \in DOMAIN titled.rows :
            LET matches == TitleMatches(titled.rows[i]["Report Title"]) IN
            matches # {} => titled.rows[i]["Title"] = titles[MinOf(matches)]["Title"]

\* C6's case: the report title holds 'Q2 Results Update' and so 'Q2 Results',
\* the master lists 'Q2 Results' first, and the row's Title is 'Q2 Results'
C6_Witness ==
    /\ pc = "cleaned"
    /\ titled.ok
    /\ titles # <<>>
    /\ titles[1]["Title"] = <<"Q","2"," ","R","e","s","u","l","t","s">>
    /\ \E i \in DOMAIN titled.rows :
         /\ TitleMatches(titled.rows[i]["Report Title"]) = {1, 2}
         /\ titled.rows[i]["Title"] = <<"Q","2"," ","R","e","s","u","l","t","s">>

\* C7: of the rows that pass the stock-code filter, the clean output holds
\* exactly those whose resolved Title has an entry in the title master's
\* Title-to-Post-Date map; no row is left out for another reason.
C7_OnlyPostDateMissExcludes ==
    (pc = "cleaned" /\ titled.ok /\ titled.rows # <<>>) =>
        /\ clean.ok
        /\ clean.rows =
             Reindex(SubFrame(titled.rows,
                       {i \in DOMAIN titled.rows :
                          \E k \in DOMAIN titles :
                              titles[k]["Title"] = titled.rows[i]["Title"]}),
                     clean_columns)

\* The entries of the client master whose firm name is the given one, letter
\* case ignored
ClientMatches(firm_name) ==
    {k \in DOMAIN clients :
        IsStr(clients[k]["Client"]) /\ Lower(clients[k]["Client"]) = Lower(firm_name)}

\* C8: the resolver gives a row the Investor Type and Investor Style of the
\* first entry of the client master whose firm name is the row's, letter case
\* ignored, and In Client Master true; with no such entry it gives the
\* sentinel twice and false, and it does not raise.
C8_ClientInfoOfFirstMatch ==
    pc = "cleaned" =>
        /\ processed.ok
        /\ \A i \in DOMAIN processed.rows :
             LET matches == ClientMatches(processed.rows[i]["Firm Name"]) IN
             IF matches # {}
             THEN /\ processed.rows[i]["Investor Type"] = clients[MinOf(matches)]["Investor Type"]
                  /\ processed.rows[i]["Investor Style"] = clients[MinOf(matches)]["Investor Style"]
                  /\ processed.rows[i]["In Client Master"] = TrueCell
             ELSE /\ processed.rows[i]["Investor Type"] = Sentinel
                  /\ processed.rows[i]["Investor Style"] = Sentinel
                  /\ processed.rows[i]["In Client Master"] = FalseCell

\* C8's case: one row's firm 'ACME' is found as the master's 'Acme', and
\* another row's firm is not in the master
C8_Witness ==
    /\ pc = "cleaned"
    /\ processed.ok
    /\ clients # <<>>
    /\ \E i \in DOMAIN processed.rows :
         /\ processed.rows[i]["Firm Name"] = <<"A","C","M","E">>
         /\ clients[1]["Client"] = <<"A","c","m","e">>
         /\ processed.rows[i]["In Client Master"] = TrueCell
         /\ processed.rows[i]["Investor Type"] = <<"H","e","d","g","e"," ","F","u","n","d">>
    /\ \E i \in DOMAIN processed.rows :
         /\ ClientMatches(processed.rows[i]["Firm Name"]) = {}
         /\ processed.rows[i]["In Client Master"] = FalseCell

\* The row of the delta is the given row, in the columns of the given row
\* other than Post Date (which the title master's date replaces)
SameRow(delta_row, row) ==
    \A c \in DOMAIN row \ {"Post Date"} : delta_row[c] = row[c]

\* C9 as stated: every row that passes the stock-code filter and whose firm
\* has no match in the client master is in the missing-client delta.
C9_EveryUnmatchedRowInDelta ==
    (pc = "cleaned" /\ missing_clients.ok) =>
        \A i \in DOMAIN processed.rows :
            processed.rows[i]["In Client Master"] = FalseCell =>
                \E j \in DOMAIN missing_clients.rows :
                    SameRow(missing_clients.rows[j], processed.rows[i])

\* C9 as amended: every row of the clean output whose firm has no match in
\* the client master is in the missing-client delta.
C9_UnmatchedCleanRowsInDelta ==
    (pc = "cleaned" /\ clean.ok) =>
        /\ missing_clients.ok
        /\ \A i \in DOMAIN clean.rows :
             ClientMatches(clean.rows[i]["Firm Name"]) = {} =>
                 \E j \in DOMAIN missing_clients.rows :
                     \A c \in DOMAIN clean.rows[i] :
                         missing_clients.rows[j][c] = clean.rows[i][c]

\* C9's case: a row of an unmatched firm is in the clean output and in the
\* delta, and another row of an unmatched firm was dropped with its title
C9_Witness ==
    /\ pc = "cleaned"
    /\ clean.ok
    /\ \E i \in DOMAIN clean.rows :
         /\ ClientMatches(clean.rows[i]["Firm Name"]) = {}
         /\ \E j \in DOMAIN missing_clients.rows :
              \A c \in DOMAIN clean.rows[i] : missing_clients.rows[j][c] = clean.rows[i][c]
    /\ \E i \in DOMAIN titled.rows :
         /\ titled.rows[i]["In Client Master"] = FalseCell
         /\ titled.rows[i]["Post Date"] = NaN

\* The rows that pass the stock-code filter, as the pre-cleaned file has them
Filtered == StockCodeFilter(master_data, stock_code).rows

\* The value the master gives for a row's column: that of the first entry
\* whose firm name is the row's, letter case ignored, unless it is the
\* sentinel; else the row's own
FromMaster(row, c) ==
    IF ClientMatches(row["Firm Name"]) # {}
       /\ clients[MinOf(ClientMatches(row["Firm Name"]))][c] # Sentinel
    THEN clients[MinOf(ClientMatches(row["Firm Name"]))][c]
    ELSE row[c]

\* C10: a row whose firm is in the client master, letter case ignored, has
\* the master's City and the master's Country unless that value is the
\* sentinel; any other row keeps its own.
C10_CityCountryFromMaster ==
    (pc = "cleaned" /\ processed.ok) =>
        \A i \in DOMAIN processed.rows :
            /\ processed.rows[i]["City"] = FromMaster(Filtered[i], "City")
            /\ processed.rows[i]["Country"] = FromMaster(Filtered[i], "Country")

\* The firms the client master lists for the domain of the e-mail address
FirmsOfDomain(email) ==
    {clients[k]["Client"] : k \in {j \in DOMAIN clients : clients[j]["Domain"] = DomainOf(email)}}

\* C11: for the publishers of adapters 7 and 8, entity resolution sees as
\* each row's Firm Name the client master's firm for the domain of the row's
\* Email, or the sentinel when the master has no such domain.
C11_FirmNameFromDomain ==
    (pc = "cleaned" /\ publisher \in {7, 8} /\ processed.ok) =>
        \A i \in DOMAIN processed.rows :
            LET firms == FirmsOfDomain(processed.rows[i]["Email"]) IN
            IF firms = {} THEN processed.rows[i]["Firm Name"] = Sentinel
            ELSE processed.rows[i]["Firm Name"] \in firms

\* C12: the stock-code filter keeps exactly the rows of the pre-cleaned file
\* whose Report Title is a text that contains the stock code as it is
\* written, in the order of the file.
C12_StockCodeFilterIsLiteral ==
    pc = "cleaned" =>
        /\ StockCodeFilter(master_data, stock_code).ok
        /\ Filtered = SelectSeq(master_data, LAMBDA row :
                        IsStr(row["Report Title"]) /\ Contains(row["Report Title"], stock_code))

(***************************************************************************)
(* The claims about the missing-client ledger (specification SpecLedger)   *)
(***************************************************************************)

\* The run began with a ledger and handed a delta with rows to the merge
Merged == pc = "cleaned" /\ missing_clients.ok /\ missing_clients.rows # <<>> /\ ledger_before.exists

\* The delta of the run as its rows are in a file
DeltaRows == to_excel(missing_clients.rows)

\* C13: the merge is a set union: the ledger after the run holds the rows of
\* the ledger before it and the rows of the delta, no others, and no row
\* twice; so a delta whose rows the ledger has leaves its rows as they were.
C13_MergeIsSetUnion ==
    Merged =>
        /\ Range(ledger.rows) = Range(ledger_before.rows) \cup Range(DeltaRows)
        /\ \A i, j \in DOMAIN ledger.rows : ledger.rows[i] = ledger.rows[j] => i = j


\* The run handed the merge no row: it failed before the delta, or its delta is empty
NoDelta == pc = "cleaned" /\ (~missing_clients.ok \/ missing_clients.rows = <<>>)

\* C14: the ledger only grows over the runs: each row of the ledger before a
\* run is in the ledger after it; a run with an empty delta leaves the file
\* as it was and creates none; the first delta with rows creates the file.
C14_LedgerAppendOnly ==
    pc = "cleaned" =>
        /\ ledger_before.exists =>
              ledger.exists /\ Range(ledger_before.rows) \subseteq Range(ledger.rows)
        /\ NoDelta => ledger = ledger_before
        /\ (~NoDelta /\ ~ledger_before.exists) => ledger = File(DeltaRows)

\* A run added a row to a ledger that was there, and kept the rows it had
C14_Witness == Merged /\ Len(ledger.rows) > Len(ledger_before.rows)

\* A run with an empty delta on a ledger that was there
C14_WitnessEmptyDelta == NoDelta /\ missing_clients.ok /\ ledger_before.exists

(***************************************************************************)
(* The claims about the run of all publishers (specification SpecAll)      *)
(***************************************************************************)

\* C15: when an error ends the run, nothing of the publisher it ended at is
\* on the disk, which held no file when the run began: no pre-cleaned file
\* and no Clean Data file of that publisher, and no combined file; and a
\* customer has a Missing Clients file only with a Clean Data file.
C15_NoPartialPersistence ==
    pc = "aborted" =>
        /\ precleaned_files[publisher] = NoFile
        /\ \A c \in DOMAIN CUSTOMERS : clean_files[<<c, publisher>>] = NoFile
        /\ combined = NoFile
        /\ \A c \in DOMAIN CUSTOMERS :
              ledgers[c].exists => \E p \in DOMAIN precleaned_files : clean_files[<<c, p>>].exists

(***************************************************************************)
(* The claims about the dates of the adapters (specification Spec)         *)
(***************************************************************************)

\* v is a text of the form YYYY-MM-DD
IsIsoDate(v) ==
    /\ IsStr(v)
    /\ Len(v) = 10
    /\ \A k \in 1..10 : IF k \in {5, 8} THEN v[k] = "-" ELSE IsIn(Digits, v[k])

\* C16: each row an adapter puts out has its Read Date and its Post Date in
\* the form YYYY-MM-DD: no date is left as the export had it, and none is
\* missing or the sentinel.
C16_OutputDatesAreIso ==
    (pc = "precleaned" /\ precleaned.ok) =>
        \A i \in DOMAIN precleaned.rows :
            IsIsoDate(precleaned.rows[i]["Read Date"]) /\ IsIsoDate(precleaned.rows[i]["Post Date"])

(***************************************************************************)
(* The claim about the window (specification SpecApp)                      *)
(***************************************************************************)

\* The run was given a publisher or a customer that its table does not have
NoEntry == publisher \notin Range(PUBLISHERS) \/ self_customer \notin DOMAIN CUSTOMERS

\* C17: a customer run given a publisher or a customer without an entry in
\* its table ends with the message to select and try again, has filtered by
\* no stock code, and has written no file.
C17_NoEntryIsReported ==
    (pc = "reported" /\ NoEntry) =>
        /\ message = MessageOf("KeyError")
        /\ stock_code = <<>>
        /\ \A f \in DOMAIN clean_files : clean_files[f] = NoFile
        /\ \A c \in DOMAIN ledgers : ledgers[c] = NoFile

\* The publishers of the run without an export file, and those with one
Skipped == {p \in Range(PUBLISHERS) : uncleaned[p] = <<>>}

WithFiles == Range(PUBLISHERS) \ Skipped

\* The files of the publisher p of the run that are on the disk
FilesOf(p) ==
    {precleaned_files[p]} \cup {clean_files[<<c, p>>] : c \in DOMAIN CUSTOMERS}

\* A publisher without files never ends the run and has no file written;
\* the run that is done has the files of each other publisher
SkippedIsPassedOver ==
    /\ pc = "aborted" => publisher \notin Skipped
    /\ \A p \in Skipped : FilesOf(p) = {NoFile}
    /\ pc = "done" => \A p \in WithFiles : \A f \in FilesOf(p) : f.exists

C19_OutputSortedByReadDateDescending ==
    (pc = "precleaned" /\ precleaned.ok) =>
        /\ \A i, j \in DOMAIN precleaned.rows :
              i < j => ~StrLess(precleaned.rows[i]["Read Date"], precleaned.rows[j]["Read Date"])
        /\ prepared.ok
        /\ LET canonical == process_columns(prepared.rows, RemoveDuplicatesOf(publisher)) IN
           /\ Len(canonical) = Len(precleaned.rows)
           /\ \A i \in DOMAIN canonical :
                 \A c \in Range(column_order) \ {"Country", "City"} :
                     precleaned.rows[i][c] = canonical[i][c]

\* An adapter put out two rows of different Read Dates that it was handed
\* the other way round
C19_Witness ==
    /\ pc = "precleaned"
    /\ precleaned.ok
    /\ Len(precleaned.rows) = 2
    /\ Len(prepared.rows) = 2
    /\ StrLess(precleaned.rows[2]["Read Date"], precleaned.rows[1]["Read Date"])
    /\ prepared.rows[1]["Read Date"] = precleaned.rows[2]["Read Date"]
    /\ precleaned.rows[1]["City"] # prepared.rows[2]["City"]

(***************************************************************************)
(* The claim about the readership report (specification SpecAll)           *)
(***************************************************************************)

\* How often the row is in the frame
Count(df, row) == Cardinality({i \in DOMAIN df : df[i] = row})

\* The rows of the customer's Clean Data files as they are in the files
CleanRows(name) == Concat([k \in DOMAIN CleanDataFolder(name) |-> CleanDataFolder(name)[k].rows])

\* The two frames have the same rows, each as often
SameRows(a, b) == \A row \in Range(a) \cup Range(b) : Count(a, row) = Count(b, row)

\* C20: a customer's readership report has the rows of the customer's Clean
\* Data files, each as often as the files have it, without the Report
\* Title; the rows are in the order of their Read Date, the earliest first,
\* and each has the date of the run as its Updated On.
C20_ReadershipIsTheCleanRows ==
    pc = "readership" =>
        \A name \in Reported :
            LET readership == readership_files[name].rows IN
            /\ readership_files[name].exists
            /\ SameRows(Drop(readership, "Updated On"), Drop(CleanRows(name), "Report Title"))
            /\ \A i, j \in DOMAIN readership :
                  /\ "Report Title" \notin DOMAIN readership[i]
                  /\ readership[i]["Updated On"] = TimestampCell(today)
                  /\ i < j => ~StrLess(readership[j]["Read Date"], readership[i]["Read Date"])

\* A report was made of two Clean Data files, the file of the later reading
\* being the first in the folder
C20_Witness ==
    /\ pc = "readership"
    /\ \E name \in Reported :
          /\ Len(readership_files[name].rows) = 2
          /\ Len(CleanDataFolder(name)) = 2
          /\ StrLess(readership_files[name].rows[1]["Read Date"],
                     readership_files[name].rows[2]["Read Date"])
          /\ CleanRows(name)[1]["Read Date"] = readership_files[name].rows[2]["Read Date"]

(***************************************************************************)
(* The claims about title resolution (specification SpecCustomer)          *)
(***************************************************************************)

\* The text without its whitespace: spaces, tabs and line breaks
RemoveWhitespace(s) == SelectSeq(s, LAMBDA c : c \notin {" ", "\t", "\n"})

\* The entries of the title master whose Content is part of the report
\* title, letter case and whitespace ignored
ContentMatches(report_title) ==
    {k \in DOMAIN titles : Contains(Lower(RemoveWhitespace(report_title)),
                                    Lower(RemoveWhitespace(titles[k]["Content"])))}

\* C21: when the Title of no entry of the title master is part of the report
\* title, the row's Title is the Title of the earliest entry whose Content is
\* part of the report title, letter case and all whitespace ignored, and the
\* report title itself when there is no such entry.
C21_ContentFallback ==
    (pc = "cleaned" /\ titled.ok) =>
        \A i \in DOMAIN titled.rows :
            LET report_title == titled.rows[i]["Report Title"] IN
            TitleMatches(report_title) = {} =>
                titled.rows[i]["Title"] =
                    IF ContentMatches(report_title) = {} THEN report_title
                    ELSE titles[MinOf(ContentMatches(report_title))]["Title"]

(***************************************************************************)
(* The claims about the canonical columns (specification Spec)             *)
(***************************************************************************)

\* The frame of process_columns before its replacement of the placeholders
Unreplaced ==
    RemoveDuplicates(SortValues(Reindex(prepared.rows, column_order), "Read Date", FALSE),
                     RemoveDuplicatesOf(publisher))

StandardName(v) ==
    IF Len(v) = 2 /\ Lower(v) \in DOMAIN Alpha2Names THEN Alpha2Names[Lower(v)] ELSE v

\* The override of the Country Mapping Master File, the value itself without one
Override(v) ==
    IF v \in DOMAIN CUSTOM_COUNTRY_MAPPING THEN CUSTOM_COUNTRY_MAPPING[v] ELSE v

\* C23: the Country of each row an adapter puts out is the sentinel when the
\* Country process_columns returned is the sentinel, and otherwise the
\* override of the standard name of that Country, in upper case; a Country
\* that is not the sentinel has no lower-case letter.
C23_CountryIsMappedAndUpperCased ==
    (pc = "precleaned" /\ precleaned.ok) =>
        LET canonical == process_columns(prepared.rows, RemoveDuplicatesOf(publisher)) IN
        \A i \in DOMAIN precleaned.rows :
            /\ precleaned.rows[i]["Country"] =
                  IF canonical[i]["Country"] = Sentinel THEN Sentinel
                  ELSE Upper(Override(StandardName(canonical[i]["Country"])))
            /\ precleaned.rows[i]["Country"] # Sentinel =>
                  \A k \in DOMAIN precleaned.rows[i]["Country"] :
                      ~IsIn(LowerLetters, precleaned.rows[i]["Country"][k])

\* The code 'JP' left as 'NIPPON', the override of its standard name, next
\* to a row whose Country is the sentinel
C23_Witness ==
    /\ pc = "precleaned"
    /\ precleaned.ok
    /\ \E i, j \in DOMAIN precleaned.rows :
          /\ process_columns(prepared.rows, RemoveDuplicatesOf(publisher))[i]["Country"] = <<"J","P">>
          /\ precleaned.rows[i]["Country"] = <<"N","I","P","P","O","N">>
          /\ precleaned.rows[j]["Country"] = Sentinel

RECURSIVE ViewsOf(_)
\* The sum of the views counts of the rows of an export file of publisher 6
ViewsOf(file_rows) ==
    IF file_rows = <<>> THEN 0
    ELSE IntOf(Tail(Head(file_rows)["Platform Views*"])) + ViewsOf(Tail(file_rows))

CleanDataFiles(folder) == {f \in DOMAIN folder : folder[f].exists}

\* C25: a successful run of the customer after a successful run of the same
\* customer and publisher adds a Clean Data file to those there are, and
\* leaves each of those as it was.
C25_EachRunKeepsEarlierFiles ==
    [][(pc = "cleaned" /\ clean.ok /\ pc' = "cleaned" /\ clean'.ok) =>
          /\ Cardinality(CleanDataFiles(clean_files')) =
                Cardinality(CleanDataFiles(clean_files)) + 1
          /\ \A f \in CleanDataFiles(clean_files) : clean_files'[f] = clean_files[f]]_vars


\* The names of a folder that none of its names comes after
GreatestNames(folder) ==
    {n \in DOMAIN folder : \A m \in DOMAIN folder : ~StrLess(n, m)}

\* C26: in a pass of the loop over the customers the rows read are those of
\* the file whose name is the greatest of the publisher's folder of
\* pre-cleaned files, and they are the rows the pre-clean step of this run
\* wrote for the publisher.
C26_LatestFileIsThisRuns ==
    [][pc = "customer" =>
          /\ \A n \in GreatestNames(precleaned_folder[publisher]) :
                master_data' = read_excel(precleaned_folder[publisher][n].rows)
          /\ master_data' = read_excel(to_excel(precleaned.rows))]_vars

\* The second customer of a second run is about to read; the folder holds
\* the file of an earlier day with other rows, and the first customer has
\* read the rows of this run
C26_Witness ==
    /\ pc = "customer"
    /\ run_no = 2
    /\ customer_no = 2
    /\ Cardinality(DOMAIN precleaned_folder[publisher]) = 2
    /\ \E n \in DOMAIN precleaned_folder[publisher] :
          precleaned_folder[publisher][n].rows # to_excel(precleaned.rows)
    /\ master_data = read_excel(to_excel(precleaned.rows))


(***************************************************************************)
(* The claims about the titles of publisher 7 (specification Spec)         *)
(***************************************************************************)

\* The title transform_reports is given for a row of the export file
TitleOfPage(row) == transform_publishers(transform_report_title(row["Conversion Page"]))

\* The items of the catalog whose key the title contains
MatchingReports(title) ==
    {k \in DOMAIN custom_reports : Contains(title, custom_reports[k][1])}

Occurrences(df, row) == Cardinality({i \in DOMAIN df : df[i] = row})

\* C28: when a run of all publishers is done, the combined file of the
\* missing clients has the rows of the customers' Missing Clients files,
\* each as often as those files have it.
C28_CombinedIsTheLedgers ==
    (pc = "done" /\ combined.exists) =>
        \A row \in Range(combined.rows) :
            Occurrences(combined.rows, row) =
                Occurrences(combine_missing_client_files_always(ledgers, NoFile).rows, row)


\* C29: a customer's Missing Clients file has no two rows equal in every
\* column, the file of the run that creates it included.
C29_LedgerHasNoIdenticalRows ==
    (pc = "cleaned" /\ ledger.exists) =>
        \A i, j \in DOMAIN ledger.rows : ledger.rows[i] = ledger.rows[j] => i = j


\* The entries of the title master whose Content is part of the report
\* title, letter case and spaces ignored
SpacelessContentMatches(report_title) ==
    {k \in DOMAIN titles : Contains(Lower(Replace(report_title, <<" ">>, <<>>)),
                                    Lower(Replace(titles[k]["Content"], <<" ">>, <<>>)))}

\* The entry of the title master that the two loops of the title resolution
\* stop at, 0 when they stop at none
MatchedEntry(report_title) ==
    IF TitleMatches(report_title) # {} THEN MinOf(TitleMatches(report_title))
    ELSE IF SpacelessContentMatches(report_title) # {}
         THEN MinOf(SpacelessContentMatches(report_title))
         ELSE 0

\* C30: the Post Date of each row of the clean file is the Post Date of the
\* entry of the title master that the title resolution stopped at.
C30_PostDateOfMatchedEntry ==
    (pc = "cleaned" /\ titled.ok) =>
        \A i \in NotNa(titled.rows) :
            MatchedEntry(titled.rows[i]["Report Title"]) # 0 =>
                titled.rows[i]["Post Date"] =
                    DateCell(titles[MatchedEntry(titled.rows[i]["Report Title"])]["Post Date"])

=============================================================================
